---- MODULE Spec2Model ----
(***************************************************************************)
(* A model of the SEC filing pipeline: filing discovery (sec_fetch.py),    *)
(* the fetch cache, text extraction, keyword classifier and the parallel   *)
(* extraction orchestrator (parse_filings.py), and the DuckDB load         *)
(* (load_duckdb.py).                                                       *)
(*                                                                         *)
(* Text is modelled as a sequence of one-character strings.  The control   *)
(* characters are written SP, TAB, LF, CR; markup tags are single tokens.  *)
(* Files are modelled as POSIX files (os.linesep is LF).                   *)
(***************************************************************************)
EXTENDS Integers, Sequences, FiniteSets, Bags, TLC

None == "None"

(***************************************************************************)
(* Characters and generic sequence helpers                                 *)
(***************************************************************************)
SP == " "
TAB == "TAB"
LF == "LF"
CR == "CR"

\* Python's \s and str.isspace() on the characters the documents use
SpaceChars == {SP, TAB, LF, CR}

IsSpace(c) == c \in SpaceChars

RECURSIVE Flatten(_)
Flatten(ss) == IF ss = <<>> THEN <<>> ELSE Head(ss) \o Flatten(Tail(ss))

\* the sequence s repeated n times
RECURSIVE Rep(_, _)
Rep(s, n) == IF n = 0 THEN <<>> ELSE s \o Rep(s, n - 1)

\* last index of the maximal run of characters of the set S that starts at i
RECURSIVE RunEnd(_, _, _)
RunEnd(t, i, S) ==
    IF i + 1 <= Len(t) /\ t[i + 1] \in S THEN RunEnd(t, i + 1, S) ELSE i

\* greatest index in lo..hi holding LF, or 0
LastLF(t, lo, hi) ==
    LET S == {j \in lo..hi : t[j] = LF}
    IN  IF S = {} THEN 0 ELSE CHOOSE j \in S : \A k \in S : k <= j

\* str.strip()
RECURSIVE LStrip(_)
LStrip(t) == IF t # <<>> /\ IsSpace(Head(t)) THEN LStrip(Tail(t)) ELSE t

RECURSIVE RStrip(_)
RStrip(t) ==
    IF t # <<>> /\ IsSpace(t[Len(t)]) THEN RStrip(SubSeq(t, 1, Len(t) - 1)) ELSE t

Strip(t) == RStrip(LStrip(t))

(***************************************************************************)
(* config.py                                                               *)
(***************************************************************************)
START_YEAR == 2015
END_YEAR == 2025
PARAGRAPH_MIN_WORDS == 15

AI_KEYWORDS ==
    <<
       <<"a","r","t","i","f","i","c","i","a","l"," ","i","n","t","e","l","l","i","g","e","n","c","e">>,  \* artificial intelligence
       <<"m","a","c","h","i","n","e"," ","l","e","a","r","n","i","n","g">>,  \* machine learning
       <<"d","e","e","p"," ","l","e","a","r","n","i","n","g">>,  \* deep learning
       <<"n","e","u","r","a","l"," ","n","e","t","w","o","r","k">>,  \* neural network
       <<"n","e","u","r","a","l"," ","n","e","t","w","o","r","k","s">>,  \* neural networks
       <<"l","a","r","g","e"," ","l","a","n","g","u","a","g","e"," ","m","o","d","e","l">>,  \* large language model
       <<"l","a","r","g","e"," ","l","a","n","g","u","a","g","e"," ","m","o","d","e","l","s">>,  \* large language models
       <<"l","l","m">>,  \* llm
       <<"l","l","m","s">>,  \* llms
       <<"g","e","n","e","r","a","t","i","v","e"," ","a","i">>,  \* generative ai
       <<"g","e","n"," ","a","i">>,  \* gen ai
       <<"f","o","u","n","d","a","t","i","o","n"," ","m","o","d","e","l">>,  \* foundation model
       <<"f","o","u","n","d","a","t","i","o","n"," ","m","o","d","e","l","s">>,  \* foundation models
       <<"c","o","m","p","u","t","e","r"," ","v","i","s","i","o","n">>,  \* computer vision
       <<"r","e","i","n","f","o","r","c","e","m","e","n","t"," ","l","e","a","r","n","i","n","g">>,  \* reinforcement learning
       <<"a","i","-","p","o","w","e","r","e","d">>,  \* ai-powered
       <<"a","i"," ","p","o","w","e","r","e","d">>,  \* ai powered
       <<"a","i","-","d","r","i","v","e","n">>,  \* ai-driven
       <<"a","i"," ","d","r","i","v","e","n">>,  \* ai driven
       <<"p","r","e","d","i","c","t","i","v","e"," ","a","n","a","l","y","t","i","c","s">>,  \* predictive analytics
       <<"a","l","g","o","r","i","t","h","m","i","c"," ","t","r","a","d","i","n","g">>  \* algorithmic trading
    >>

(***************************************************************************)
(* parse_filings.py: text extraction, segmentation and classification      *)
(***************************************************************************)
MAX_WORKERS == 6
MAX_RETRIES == 2

SkipOpenTags == {"<script>", "<style>", "<noscript>"}
SkipCloseTags == {"</script>", "</style>", "</noscript>"}
Tags == SkipOpenTags \cup SkipCloseTags \cup {"<p>", "</p>", "<b>", "</b>"}

\* The text nodes BeautifulSoup keeps once script/style/noscript are
\* decomposed: the maximal runs of characters between tags.
RECURSIVE TextNodes(_, _, _, _, _)
TextNodes(html, i, skip, cur, nodes) ==
    LET flushed == IF cur = <<>> THEN nodes ELSE Append(nodes, cur)
    IN  IF i > Len(html) THEN flushed
        ELSE IF html[i] \in Tags
             THEN TextNodes(html, i + 1,
                            IF html[i] \in SkipOpenTags THEN TRUE
                            ELSE IF html[i] \in SkipCloseTags THEN FALSE
                            ELSE skip,
                            <<>>, flushed)
        ELSE IF skip THEN TextNodes(html, i + 1, skip, cur, nodes)
        ELSE TextNodes(html, i + 1, skip, Append(cur, html[i]), nodes)

\* soup.get_text(separator="\n")
RECURSIVE JoinLF(_)
JoinLF(nodes) ==
    IF nodes = <<>> THEN <<>>
    ELSE IF Len(nodes) = 1 THEN nodes[1]
    ELSE nodes[1] \o <<LF>> \o JoinLF(Tail(nodes))

get_text(html) == JoinLF(TextNodes(html, 1, FALSE, <<>>, <<>>))

\* re.sub(r"\s+\n", "\n", text)
RECURSIVE SubSpacesBeforeLF(_, _)
SubSpacesBeforeLF(t, i) ==
    IF i > Len(t) THEN <<>>
    ELSE LET j == IF IsSpace(t[i])
                  THEN LastLF(t, i + 1, RunEnd(t, i, SpaceChars)) ELSE 0
         IN  IF j # 0 THEN <<LF>> \o SubSpacesBeforeLF(t, j + 1)
             ELSE <<t[i]>> \o SubSpacesBeforeLF(t, i + 1)

\* re.sub(r"\n\s+", "\n", text)
RECURSIVE SubSpacesAfterLF(_, _)
SubSpacesAfterLF(t, i) ==
    IF i > Len(t) THEN <<>>
    ELSE IF t[i] = LF /\ i + 1 <= Len(t) /\ IsSpace(t[i + 1])
         THEN <<LF>> \o SubSpacesAfterLF(t, RunEnd(t, i + 1, SpaceChars) + 1)
         ELSE <<t[i]>> \o SubSpacesAfterLF(t, i + 1)

BlankChars == {SP, TAB}

IsBlank(c) == c \in BlankChars

\* re.sub(r"[ \t]+", " ", text)
RECURSIVE SubBlanks(_, _)
SubBlanks(t, i) ==
    IF i > Len(t) THEN <<>>
    ELSE IF IsBlank(t[i])
         THEN <<SP>> \o SubBlanks(t, RunEnd(t, i, BlankChars) + 1)
         ELSE <<t[i]>> \o SubBlanks(t, i + 1)

clean_html(html) ==
    Strip(SubBlanks(SubSpacesAfterLF(SubSpacesBeforeLF(get_text(html), 1), 1), 1))

\* re.split(r"\n\s*\n", text): the pieces between the separators
RECURSIVE SplitBlankLines(_, _, _)
SplitBlankLines(t, i, cur) ==
    IF i > Len(t) THEN <<cur>>
    ELSE LET j == IF t[i] = LF
                  THEN LastLF(t, i + 1, RunEnd(t, i, SpaceChars)) ELSE 0
         IN  IF j # 0 THEN <<cur>> \o SplitBlankLines(t, j + 1, <<>>)
             ELSE SplitBlankLines(t, i + 1, Append(cur, t[i]))

IsSentenceEnd(c) == c \in {".", "!", "?"}

\* re.split(r"(?<=[.!?])\s{2,}", p)
RECURSIVE SplitSentences(_, _, _)
SplitSentences(p, i, cur) ==
    IF i > Len(p) THEN <<cur>>
    ELSE IF /\ i > 1 /\ IsSentenceEnd(p[i - 1])
            /\ IsSpace(p[i]) /\ i + 1 <= Len(p) /\ IsSpace(p[i + 1])
         THEN <<cur>> \o SplitSentences(p, RunEnd(p, i, SpaceChars) + 1, <<>>)
         ELSE SplitSentences(p, i + 1, Append(cur, p[i]))

\* the inner loop of split_into_paragraphs: trimmed, non-empty chunks
RECURSIVE KeepChunks(_)
KeepChunks(chunks) ==
    IF chunks = <<>> THEN <<>>
    ELSE LET c == Strip(Head(chunks))
         IN  (IF c = <<>> THEN <<>> ELSE <<c>>) \o KeepChunks(Tail(chunks))

RECURSIVE SplitBlocks(_)
SplitBlocks(raw_paras) ==
    IF raw_paras = <<>> THEN <<>>
    ELSE LET p == Strip(Head(raw_paras))
         IN  (IF p = <<>> THEN <<>> ELSE KeepChunks(SplitSentences(p, 1, <<>>)))
             \o SplitBlocks(Tail(raw_paras))

\* split_into_paragraphs as it would be without the split on sentence ends
split_on_blank_lines_only(text) == KeepChunks(SplitBlankLines(text, 1, <<>>))

split_into_paragraphs(text) == SplitBlocks(SplitBlankLines(text, 1, <<>>))

\* str.lower() on the letters the documents use
Lower(c) ==
    CASE c = "A" -> "a" [] c = "I" -> "i" [] c = "L" -> "l" [] c = "M" -> "m"
      [] OTHER -> c

LowerText(p) == [i \in 1..Len(p) |-> Lower(p[i])]

\* kw in lower
IsSubstring(kw, t) ==
    \E i \in 1..(Len(t) - Len(kw) + 1) : \A j \in 1..Len(kw) : t[i + j - 1] = kw[j]

\* the keyword None of (False, None)
NoKeyword == <<>>

\* FirstKeyword as it would be were the last matching keyword of the list
\* returned
RECURSIVE LastKeyword(_, _)
LastKeyword(lower, k) ==
    IF k > Len(AI_KEYWORDS) THEN <<FALSE, NoKeyword>>
    ELSE LET rest == LastKeyword(lower, k + 1)
         IN  IF rest[1] THEN rest
             ELSE IF IsSubstring(AI_KEYWORDS[k], lower) THEN <<TRUE, AI_KEYWORDS[k]>>
             ELSE rest

\* lines 87-90: the loop over AI_KEYWORDS from position k on
RECURSIVE FirstKeyword(_, _)
FirstKeyword(lower, k) ==
    IF k > Len(AI_KEYWORDS) THEN <<FALSE, NoKeyword>>
    ELSE IF IsSubstring(AI_KEYWORDS[k], lower) THEN <<TRUE, AI_KEYWORDS[k]>>
    ELSE FirstKeyword(lower, k + 1)

\* paragraph_contains_ai: <<is_ai, kw>> with the first keyword of the list found
paragraph_contains_ai(p) == FirstKeyword(LowerText(p), 1)

\* len(p.split()): the number of maximal runs of non-space characters
WordCount(p) ==
    Cardinality({i \in 1..Len(p) :
                    ~IsSpace(p[i]) /\ (i = 1 \/ IsSpace(p[i - 1]))})

(***************************************************************************)
(* Files                                                                   *)
(***************************************************************************)
\* a path at which no file exists; the html value None
NoFile == <<"NoFile">>
NoHtml == <<"None">>

\* text written through Path.write_text: LF becomes os.linesep
os_linesep == <<LF>>

WriteText(text) ==
    Flatten([i \in 1..Len(text) |->
                IF text[i] = LF THEN os_linesep ELSE <<text[i]>>])

\* Path.read_text (universal newlines): CR LF and a lone CR are read as LF
RECURSIVE ReadText(_)
ReadText(data) ==
    IF data = <<>> THEN <<>>
    ELSE IF Head(data) = CR
         THEN <<LF>> \o ReadText(IF Len(data) >= 2 /\ data[2] = LF
                                 THEN SubSeq(data, 3, Len(data))
                                 ELSE Tail(data))
         ELSE <<Head(data)>> \o ReadText(Tail(data))

\* a write of data at offset 0 into a file holding old (no truncation)
WriteAt0(old, data) ==
    IF Len(old) > Len(data)
    THEN data \o SubSeq(old, Len(data) + 1, Len(old))
    ELSE data

(***************************************************************************)
(* The document host                                                       *)
(***************************************************************************)
\* The documents of the host.  DocAI holds PARAGRAPH_MIN_WORDS words and a
\* keyword, DocPlain no keyword; DocCR separates its last word by two lone CR.
DocAI == <<"L", "L", "M">> \o Rep(<<SP, "a">>, PARAGRAPH_MIN_WORDS - 1)
DocPlain == <<"<p>", "a">> \o Rep(<<SP, "a">>, PARAGRAPH_MIN_WORDS - 1) \o <<"</p>">>
DocCR == <<"l", "l", "m">> \o Rep(<<SP, "a">>, PARAGRAPH_MIN_WORDS - 3)
         \o <<SP, "a", ".", CR, CR, "b">>

URLs == {"u1", "u2", "u3"}
ServerDocs == [u \in URLs |-> CASE u = "u1" -> DocAI [] u = "u2" -> DocPlain [] OTHER -> DocCR]


(***************************************************************************)
(* State                                                                   *)
(***************************************************************************)
VARIABLES
    server,     \* the document host: the body it serves for each URL
    paras,      \* lines 216-230 tabulated: Analyse of every text a fetch can return
    cache,      \* HTML_CACHE_DIR: the file of each URL, or NoFile
    filings,    \* run_parse: the records load_index returned
    nsub,       \* run_parse: number of tasks submitted to the executor
    pc,         \* position of each task (future) of the executor
    attempt,    \* _fetch_html_with_cache: the loop variable of each task
    html,       \* _process_single_filing: the fetched text of each task
    rows,       \* the result of each task's future
    all_rows,   \* run_parse: the master row list
    mainpc,     \* run_parse: position of the orchestrator thread
    csv,        \* data/processed/ai_paragraphs.csv: exists, columns, rows
    db,         \* sec_ai.duckdb: exists, and its two tables
    loadpc,     \* load_ai_paragraphs_to_duckdb: not called, returned or raised
    last_load,  \* history: the last call of the load, the file it was given,
                \* the database before it, its error, the file loaded before
    arg,        \* a direct call of a function of the pipeline: its argument
    result,     \* the value the call returned, or Pending
    run,        \* how many times run_parse was started
    prev_csv,   \* the output of the previous run of run_parse
    prev_src,   \* history: src at the end of the previous run of run_parse
    universe,   \* run_fetch: the companies get_company_universe returned
    ci,         \* run_fetch: position of the loop over the companies
    all_filings, \* run_fetch: the filings collected so far
    index_file, \* data/raw/sec_filings_index.json: exists, complete, filings
    fetchpc,    \* run_fetch: not called, in the loop, returned or raised
    calls,      \* history: the registry calls made, with their responses
    pauses,     \* history: number of time.sleep(SEC_SLEEP) pauses of run_fetch
    gets,       \* history: number of requests.get calls made per URL
    src,        \* history: where each task's text came from
    wrote,      \* history: outcome of each task's cache write
    slept,      \* history: number of time.sleep(0.3) pauses of each task
    window,     \* config.py: START_YEAR and END_YEAR as configured for the run
    task_state, \* sec_ai_trends_flow: the state of each submitted task run
    flowpc,     \* sec_ai_trends_flow: not called, waiting, returned or raised
    plots,      \* run_analysis: the plot files are written
    netfail,    \* environment: failing requests the host may still answer with
    iofail      \* environment: file operations that may still fail

cacheVars == <<server, paras, cache>>
envVars == <<netfail, iofail>>
taskVars == <<pc, attempt, html, rows>>
histVars == <<gets, src, wrote, slept>>
mainVars == <<filings, nsub, all_rows, mainpc, run, prev_csv, prev_src>>
parseVars == <<cacheVars, envVars, taskVars, histVars, mainVars, csv>>
dbVars == <<db, loadpc, last_load>>
callVars == <<arg, result>>
flowVars == <<task_state, flowpc, plots>>
configVars == <<window>>
fetchVars == <<universe, ci, all_filings, index_file, fetchpc, calls, pauses>>
vars == <<parseVars, dbVars, fetchVars, callVars, flowVars, configVars>>

Tasks == 1..Len(filings)

(***************************************************************************)
(* parse_filings.py: _process_single_filing                                *)
(***************************************************************************)
(* The values of a record of the index.  ticker, sector, form, form_type,   *)
(* filing_url and url are strings, None when the key is absent.            *)
(* filing_date and filed are texts, <<>> when absent.  year is <<"none">>, *)
(* <<"int", n>> or <<"str", s>> (a JSON string).                           *)
NoText == <<>>
NoYear == <<"none">>
IntYear(n) == <<"int", n>>
StrYear(s) == <<"str", s>>

\* Python truthiness of a string field, a text field and the year
Truthy(v) == v # None /\ v # ""
TruthyText(v) == v # NoText
TruthyYear(y) ==
    \/ y[1] = "int" /\ y[2] # 0
    \/ y[1] = "str" /\ y[2] # ""

\* a or b
Or(a, b) == IF Truthy(a) THEN a ELSE b
OrText(a, b) == IF TruthyText(a) THEN a ELSE b

Digits == <<"0", "1", "2", "3", "4", "5", "6", "7", "8", "9">>

IsDigit(c) == \E d \in 1..10 : Digits[d] = c

DigitValue(c) == (CHOOSE d \in 1..10 : Digits[d] = c) - 1

RECURSIVE DecimalValue(_)
DecimalValue(cs) ==
    IF cs = <<>> THEN 0
    ELSE 10 * DecimalValue(SubSeq(cs, 1, Len(cs) - 1)) + DigitValue(cs[Len(cs)])

\* int(s) for a text s of decimal digits; <<"none">> for the ValueError
IntOf(cs) ==
    IF cs # <<>> /\ \A i \in 1..Len(cs) : IsDigit(cs[i])
    THEN IntYear(DecimalValue(cs)) ELSE NoYear

\* lines 191-194: int(str(filing_date)[:4]), None when int() raises
YearPrefix(filing_date) ==
    IntOf(SubSeq(filing_date, 1, IF Len(filing_date) < 4 THEN Len(filing_date) ELSE 4))

\* lines 181-194: the core fields of a record
Fields(rec) ==
    LET filing_date == OrText(rec.filing_date, rec.filed)
    IN  [ticker |-> rec.ticker,
         sector |-> rec.sector,
         form |-> Or(rec.form, rec.form_type),
         filing_date |-> filing_date,
         url |-> Or(rec.filing_url, rec.url),
         year |-> IF rec.year = NoYear /\ TruthyText(filing_date)
                  THEN YearPrefix(filing_date) ELSE rec.year]

\* line 197
MissingRequired(f) ==
    ~(Truthy(f.ticker) /\ Truthy(f.sector) /\ Truthy(f.form)
      /\ TruthyText(f.filing_date) /\ Truthy(f.url) /\ TruthyYear(f.year))

\* line 203 raises TypeError when year is not a number
YearCompareRaises(f) == f.year[1] # "int"

\* line 203
OutsideWindow(f) == f.year[2] < 2015 \/ f.year[2] > 2025

Columns == <<"ticker", "sector", "year", "filing_date", "form", "paragraph", "keyword">>

\* lines 232-242: a row dict, as its items in insertion order
RowDict(f, p, kw) ==
    << <<"ticker", f.ticker>>, <<"sector", f.sector>>, <<"year", f.year[2]>>,
       <<"filing_date", f.filing_date>>, <<"form", f.form>>,
       <<"paragraph", p>>, <<"keyword", kw>> >>

\* KeptParagraphs as it would be were a unit of exactly the minimum dropped
RECURSIVE KeptParagraphsAbove(_)
KeptParagraphsAbove(ps) ==
    IF ps = <<>> THEN <<>>
    ELSE LET p == Head(ps)
             found == paragraph_contains_ai(p)
         IN  (IF WordCount(p) <= PARAGRAPH_MIN_WORDS \/ ~found[1]
              THEN <<>> ELSE << <<p, found[2]>> >>)
             \o KeptParagraphsAbove(Tail(ps))

\* lines 221-230: the paragraphs of the loop that reach rows.append, each
\* with the keyword found in it
RECURSIVE KeptParagraphs(_)
KeptParagraphs(ps) ==
    IF ps = <<>> THEN <<>>
    ELSE LET p == Head(ps)
             found == paragraph_contains_ai(p)
         IN  (IF WordCount(p) < PARAGRAPH_MIN_WORDS \/ ~found[1]
              THEN <<>> ELSE << <<p, found[2]>> >>)
             \o KeptParagraphs(Tail(ps))

\* lines 216-230 on the text h
Analyse(h) == KeptParagraphs(split_into_paragraphs(clean_html(h)))

\* every text a fetch can return: a body as served, a body as read back from
\* its cache file, and the content of a file opened for writing
TextsOf(docs) ==
    {docs[u] : u \in DOMAIN docs}
    \cup {ReadText(WriteText(docs[u])) : u \in DOMAIN docs}
    \cup {<<>>}

\* lines 216-244: the rows of a filing whose text is h
ExtractRows(f, h) ==
    [i \in 1..Len(paras[h]) |-> RowDict(f, paras[h][i][1], paras[h][i][2])]

\* the fields of task t's record
F(t) == Fields(filings[t])

RunningPcs == {"read", "get", "wopen", "wdata"}

\* the tasks a worker thread is executing
Running == {t \in Tasks : pc[t] \in RunningPcs}

\* lines 216-244 and the completion of the future: the task returns the rows of h
Return(t, h, from, w) ==
    /\ html' = [html EXCEPT ![t] = h]
    /\ rows' = [rows EXCEPT ![t] = ExtractRows(F(t), h)]
    /\ pc' = [pc EXCEPT ![t] = "done"]
    /\ src' = [src EXCEPT ![t] = from]
    /\ wrote' = [wrote EXCEPT ![t] = w]

\* line 274: executor.submit of the next record
Submit ==
    /\ mainpc = "submit"
    /\ nsub < Len(filings)
    /\ nsub' = nsub + 1
    /\ pc' = [pc EXCEPT ![nsub + 1] = "pending"]
    /\ UNCHANGED <<configVars, flowVars, callVars, cacheVars, envVars, attempt, html, rows, histVars, filings, all_rows,
                   mainpc, run, prev_csv, prev_src, csv, dbVars, fetchVars>>

\* line 279: every record is submitted, as_completed starts
AllSubmitted ==
    /\ mainpc = "submit"
    /\ nsub = Len(filings)
    /\ mainpc' = "collect"
    /\ UNCHANGED <<configVars, flowVars, callVars, cacheVars, envVars, taskVars, histVars, filings, nsub, all_rows,
                   run, prev_csv, prev_src, csv, dbVars, fetchVars>>

\* Start as it would be were the pool unbounded (a thread per submitted task)
StartAnyTime(t) ==
    /\ pc[t] = "pending"
    /\ \A s \in Tasks : pc[s] = "pending" => t <= s
    /\ IF MissingRequired(F(t))
       THEN /\ pc' = [pc EXCEPT ![t] = "done"]
            /\ src' = [src EXCEPT ![t] = "skipped"]
            /\ UNCHANGED attempt
       ELSE IF YearCompareRaises(F(t))
       THEN /\ pc' = [pc EXCEPT ![t] = "raised"]
            /\ src' = [src EXCEPT ![t] = "raised"]
            /\ UNCHANGED attempt
       ELSE IF OutsideWindow(F(t))
       THEN /\ pc' = [pc EXCEPT ![t] = "done"]
            /\ src' = [src EXCEPT ![t] = "skipped"]
            /\ UNCHANGED attempt
       ELSE /\ pc' = [pc EXCEPT ![t] = IF cache[F(t).url] # NoFile
                                       THEN "read" ELSE "get"]
            /\ attempt' = [attempt EXCEPT ![t] = 1]
            /\ src' = src
    /\ UNCHANGED <<configVars, flowVars, callVars, cacheVars, envVars, html, rows, gets, wrote, slept,
                   mainVars, csv, dbVars, fetchVars>>

\* Start as it would be without the test of line 197 for missing fields
StartUnchecked(t) ==
    /\ pc[t] = "pending"
    /\ \A s \in Tasks : pc[s] = "pending" => t <= s
    /\ Cardinality(Running) < MAX_WORKERS
    /\ IF YearCompareRaises(F(t))
       THEN /\ pc' = [pc EXCEPT ![t] = "raised"]
            /\ src' = [src EXCEPT ![t] = "raised"]
            /\ UNCHANGED attempt
       ELSE IF OutsideWindow(F(t))
       THEN /\ pc' = [pc EXCEPT ![t] = "done"]
            /\ src' = [src EXCEPT ![t] = "skipped"]
            /\ UNCHANGED attempt
       ELSE /\ pc' = [pc EXCEPT ![t] = IF cache[F(t).url] # NoFile
                                       THEN "read" ELSE "get"]
            /\ attempt' = [attempt EXCEPT ![t] = 1]
            /\ src' = src
    /\ UNCHANGED <<configVars, flowVars, callVars, cacheVars, envVars, html, rows, gets, wrote, slept,
                   mainVars, csv, dbVars, fetchVars>>

\* ThreadPoolExecutor(max_workers=MAX_WORKERS): a free worker thread takes the
\* oldest queued work item and runs _process_single_filing up to the cache
\* lookup of _fetch_html_with_cache (lines 179-211 and 139-140)
Start(t) ==
    /\ pc[t] = "pending"
    /\ \A s \in Tasks : pc[s] = "pending" => t <= s
    /\ Cardinality(Running) < MAX_WORKERS
    /\ IF MissingRequired(F(t))
       THEN /\ pc' = [pc EXCEPT ![t] = "done"]
            /\ src' = [src EXCEPT ![t] = "skipped"]
            /\ UNCHANGED attempt
       ELSE IF YearCompareRaises(F(t))
       THEN /\ pc' = [pc EXCEPT ![t] = "raised"]
            /\ src' = [src EXCEPT ![t] = "raised"]
            /\ UNCHANGED attempt
       ELSE IF OutsideWindow(F(t))
       THEN /\ pc' = [pc EXCEPT ![t] = "done"]
            /\ src' = [src EXCEPT ![t] = "skipped"]
            /\ UNCHANGED attempt
       ELSE /\ pc' = [pc EXCEPT ![t] = IF cache[F(t).url] # NoFile
                                       THEN "read" ELSE "get"]
            /\ attempt' = [attempt EXCEPT ![t] = 1]
            /\ src' = src
    /\ UNCHANGED <<configVars, flowVars, callVars, cacheVars, envVars, html, rows, gets, wrote, slept,
                   mainVars, csv, dbVars, fetchVars>>

\* line 142: the cache file is read and returned
ReadOk(t) ==
    /\ pc[t] = "read"
    /\ Return(t, ReadText(cache[F(t).url]), "cache", "no")
    /\ UNCHANGED <<configVars, flowVars, callVars, cacheVars, envVars, attempt, gets, slept, mainVars, csv, dbVars, fetchVars>>

\* lines 143-146: reading the cache file raises, the network fetch follows
ReadFail(t) ==
    /\ pc[t] = "read"
    /\ iofail > 0
    /\ iofail' = iofail - 1
    /\ pc' = [pc EXCEPT ![t] = "get"]
    /\ UNCHANGED <<configVars, flowVars, callVars, cacheVars, netfail, attempt, html, rows, histVars, mainVars, csv, dbVars, fetchVars>>

\* lines 149-151: requests.get succeeds
GetOk(t) ==
    /\ pc[t] = "get"
    /\ html' = [html EXCEPT ![t] = server[F(t).url]]
    /\ gets' = [gets EXCEPT ![F(t).url] = @ + 1]
    /\ pc' = [pc EXCEPT ![t] = "wopen"]
    /\ UNCHANGED <<configVars, flowVars, callVars, cacheVars, envVars, attempt, rows, src, wrote, slept, mainVars, csv, dbVars, fetchVars>>

\* GetFail as it would be were the loop "while True": it never gives up
GetFailKeepsTrying(t) ==
    /\ pc[t] = "get"
    /\ netfail > 0
    /\ netfail' = netfail - 1
    /\ gets' = [gets EXCEPT ![F(t).url] = @ + 1]
    /\ slept' = [slept EXCEPT ![t] = @ + 1]
    /\ attempt' = [attempt EXCEPT ![t] = @ + 1]
    /\ UNCHANGED <<configVars, flowVars, callVars, pc, src, cacheVars, iofail, html, rows, wrote, mainVars, csv,
                   dbVars, fetchVars>>

\* lines 161-168 and 212-214: requests.get or raise_for_status raises; the
\* task sleeps and tries again, or gives up after MAX_RETRIES attempts
GetFail(t) ==
    /\ pc[t] = "get"
    /\ netfail > 0
    /\ netfail' = netfail - 1
    /\ gets' = [gets EXCEPT ![F(t).url] = @ + 1]
    /\ slept' = [slept EXCEPT ![t] = @ + 1]
    /\ IF attempt[t] < MAX_RETRIES
       THEN /\ attempt' = [attempt EXCEPT ![t] = @ + 1]
            /\ UNCHANGED <<pc, src>>
       ELSE /\ pc' = [pc EXCEPT ![t] = "done"]
            /\ src' = [src EXCEPT ![t] = "failed"]
            /\ UNCHANGED attempt
    /\ UNCHANGED <<configVars, flowVars, callVars, cacheVars, iofail, html, rows, wrote, mainVars, csv, dbVars, fetchVars>>

\* line 155: write_text opens the cache file for writing, which truncates it
WriteOpen(t) ==
    /\ pc[t] = "wopen"
    /\ cache' = [cache EXCEPT ![F(t).url] = <<>>]
    /\ pc' = [pc EXCEPT ![t] = "wdata"]
    /\ UNCHANGED <<configVars, flowVars, callVars, server, paras, envVars, attempt, html, rows, histVars, mainVars, csv, dbVars, fetchVars>>

\* WriteOpenFail as it would be were the write not in a try of its own: the
\* OSError reaches the outer except and the last attempt ends with None
WriteOpenFailGivesUp(t) ==
    /\ pc[t] = "wopen"
    /\ iofail > 0
    /\ iofail' = iofail - 1
    /\ html' = [html EXCEPT ![t] = NoHtml]
    /\ pc' = [pc EXCEPT ![t] = "done"]
    /\ src' = [src EXCEPT ![t] = "failed"]
    /\ wrote' = [wrote EXCEPT ![t] = "failed"]
    /\ UNCHANGED <<configVars, flowVars, callVars, cacheVars, netfail, attempt, rows, gets, slept, mainVars, csv,
                   dbVars, fetchVars>>

\* lines 156-159: the open raises; the fetched text is returned
WriteOpenFail(t) ==
    /\ pc[t] = "wopen"
    /\ iofail > 0
    /\ iofail' = iofail - 1
    /\ Return(t, html[t], "net", "failed")
    /\ UNCHANGED <<configVars, flowVars, callVars, cacheVars, netfail, attempt, gets, slept, mainVars, csv, dbVars, fetchVars>>

\* lines 155 and 159: the text is written and the file closed; it is returned
WriteData(t) ==
    /\ pc[t] = "wdata"
    /\ cache' = [cache EXCEPT ![F(t).url] = WriteAt0(@, WriteText(html[t]))]
    /\ Return(t, html[t], "net", "ok")
    /\ UNCHANGED <<configVars, flowVars, callVars, server, paras, envVars, attempt, gets, slept, mainVars, csv, dbVars, fetchVars>>

\* lines 156-159: the write raises after the open; the fetched text is returned
WriteDataFail(t) ==
    /\ pc[t] = "wdata"
    /\ iofail > 0
    /\ iofail' = iofail - 1
    /\ Return(t, html[t], "net", "failed")
    /\ UNCHANGED <<configVars, flowVars, callVars, cacheVars, netfail, attempt, gets, slept, mainVars, csv, dbVars, fetchVars>>

\* Collect as it would be without the try around future.result(): the
\* exception of a worker leaves run_parse
CollectPropagates(t) ==
    /\ mainpc = "collect"
    /\ pc[t] \in {"done", "raised"}
    /\ all_rows' = IF pc[t] = "done" /\ rows[t] # <<>>
                   THEN all_rows \o rows[t] ELSE all_rows
    /\ mainpc' = IF pc[t] = "raised" THEN "raised" ELSE mainpc
    /\ pc' = [pc EXCEPT ![t] = "collected"]
    /\ UNCHANGED <<configVars, flowVars, callVars, cacheVars, envVars, attempt, html, rows, histVars, filings, nsub,
                   run, prev_csv, prev_src, csv, dbVars, fetchVars>>

\* Collect as it would be were the rows of a future assigned to the master
\* list instead of added to it
CollectAssigns(t) ==
    /\ mainpc = "collect"
    /\ pc[t] \in {"done", "raised"}
    /\ all_rows' = IF pc[t] = "done" /\ rows[t] # <<>> THEN rows[t] ELSE all_rows
    /\ pc' = [pc EXCEPT ![t] = "collected"]
    /\ UNCHANGED <<configVars, flowVars, callVars, cacheVars, envVars, attempt, html, rows, histVars, filings, nsub,
                   mainpc, run, prev_csv, prev_src, csv, dbVars, fetchVars>>

\* lines 279-287: as_completed yields a finished future; its rows are added,
\* or its exception is logged
Collect(t) ==
    /\ mainpc = "collect"
    /\ pc[t] \in {"done", "raised"}
    /\ all_rows' = IF pc[t] = "done" /\ rows[t] # <<>>
                   THEN all_rows \o rows[t] ELSE all_rows
    /\ pc' = [pc EXCEPT ![t] = "collected"]
    /\ UNCHANGED <<configVars, flowVars, callVars, cacheVars, envVars, attempt, html, rows, histVars, filings, nsub,
                   mainpc, run, prev_csv, prev_src, csv, dbVars, fetchVars>>

\* pd.DataFrame(list of dicts).columns: the keys in order of first appearance
RECURSIVE KeysInOrder(_, _)
KeysInOrder(items, acc) ==
    IF items = <<>> THEN acc
    ELSE KeysInOrder(Tail(items),
                     IF \E i \in 1..Len(acc) : acc[i] = Head(items)[1]
                     THEN acc ELSE Append(acc, Head(items)[1]))

DataFrameColumns(rs) == KeysInOrder(Flatten(rs), <<>>)

\* OutputFrame as it would be without the branch for the empty frame
OutputFrameBare(rs) ==
    [exists |-> TRUE, columns |-> DataFrameColumns(rs), rows |-> rs]

\* lines 291-306: the frame written; an empty frame gets the fixed columns
OutputFrame(rs) ==
    IF rs = <<>> THEN [exists |-> TRUE, columns |-> Columns, rows |-> <<>>]
    ELSE [exists |-> TRUE, columns |-> DataFrameColumns(rs), rows |-> rs]

\* WriteCsv as it would be were the table written as soon as the records are
\* submitted, without waiting for the futures
WriteCsvEarly ==
    /\ mainpc = "collect"
    /\ csv' = OutputFrame(all_rows)
    /\ mainpc' = "done"
    /\ UNCHANGED <<configVars, flowVars, callVars, cacheVars, envVars, taskVars, histVars, filings, nsub, all_rows,
                   run, prev_csv, prev_src, dbVars, fetchVars>>

\* lines 289-315: every future is collected, the pool is shut down, the
\* table is written
WriteCsv ==
    /\ mainpc = "collect"
    /\ \A t \in Tasks : pc[t] = "collected"
    /\ csv' = OutputFrame(all_rows)
    /\ mainpc' = "done"
    /\ UNCHANGED <<configVars, flowVars, callVars, cacheVars, envVars, taskVars, histVars, filings, nsub, all_rows,
                   run, prev_csv, prev_src, dbVars, fetchVars>>

(***************************************************************************)
(* load_duckdb.py                                                          *)
(***************************************************************************)
\* the spellings pd.read_csv reads as NaN, for string and for text cells
NaStrings == {"", "NA", "N/A", "NaN", "nan", "null", "NULL", "None"}
NaTexts == {<<>>, <<"N", "A">>, <<"n", "a", "n">>, <<"n", "u", "l", "l">>}
NaN == "NaN"
NaNText == <<"NaN">>

\* the value of column key in a row
RECURSIVE Get(_, _)
Get(items, key) ==
    IF items = <<>> THEN NaN
    ELSE IF Head(items)[1] = key THEN Head(items)[2] ELSE Get(Tail(items), key)

\* pd.read_csv of a cell written by to_csv
ReadCsvValue(col, v) ==
    IF col = "year" THEN v
    ELSE IF col \in {"ticker", "sector", "form"}
         THEN (IF v \in NaStrings THEN NaN ELSE v)
         ELSE (IF v \in NaTexts THEN NaNText ELSE v)

\* pd.read_csv(source_csv): the frame read back
ReadCsv(file) ==
    [exists |-> TRUE, columns |-> file.columns,
     rows |-> [i \in 1..Len(file.rows) |->
                 [j \in 1..Len(file.rows[i]) |->
                     <<file.rows[i][j][1],
                       ReadCsvValue(file.rows[i][j][1], file.rows[i][j][2])>>]]]

\* lines 35-46
MissingColumns(df) ==
    {c \in {Columns[i] : i \in 1..Len(Columns)} :
        \A i \in 1..Len(df.columns) : df.columns[i] # c}

\* CAST(year AS INTEGER) of the int64 column read from the file
CastInteger(v) == v

\* lines 65-78: the rows of CREATE TABLE ai_paragraphs AS SELECT ... FROM df
SelectParagraphs(df) ==
    [i \in 1..Len(df.rows) |->
        <<CastInteger(Get(df.rows[i], "year")), Get(df.rows[i], "ticker"),
          Get(df.rows[i], "sector"), Get(df.rows[i], "filing_date"),
          Get(df.rows[i], "form"), Get(df.rows[i], "paragraph"),
          Get(df.rows[i], "keyword")>>]

\* lines 82-93: GROUP BY year, sector, ticker with COUNT(*)
CountsByYearSectorTicker(tbl) ==
    LET keys == {<<tbl[i][1], tbl[i][3], tbl[i][2]>> : i \in 1..Len(tbl)}
    IN  {<<k, Cardinality({i \in 1..Len(tbl) :
                              <<tbl[i][1], tbl[i][3], tbl[i][2]>> = k})>> : k \in keys}

\* load_ai_paragraphs_to_duckdb, lines 23-46: what makes the load raise
\* before the database is opened
LoadRaises(file) ==
    \/ ~file.exists                         \* FileNotFoundError
    \/ file.columns = <<>>                  \* read_csv: no columns to parse
    \/ MissingColumns(ReadCsv(file)) # {}   \* ValueError

\* the exception of lines 23-46, with the columns its message names
NoError == [type |-> "none", missing |-> {}]

LoadError(file) ==
    IF ~file.exists THEN [type |-> "FileNotFoundError", missing |-> {}]
    ELSE IF file.columns = <<>> THEN [type |-> "RuntimeError", missing |-> {}]
    ELSE IF MissingColumns(ReadCsv(file)) # {}
         THEN [type |-> "ValueError", missing |-> MissingColumns(ReadCsv(file))]
    ELSE NoError

NoDb == [exists |-> FALSE, ai_paragraphs |-> <<>>, ai_counts_year_sector_ticker |-> {}]
NoCsv == [exists |-> FALSE, columns |-> <<>>, rows |-> <<>>]
NoLoad == [called |-> FALSE, csv |-> NoCsv, before |-> NoDb, error |-> NoError,
           prior |-> NoCsv]

\* LoadDuckdb as it would be were the rows inserted into the table left by
\* the load before (no DROP TABLE)
LoadDuckdbAppends ==
    /\ mainpc = "done"
    /\ loadpc = "idle"
    /\ last_load' = [called |-> TRUE, csv |-> csv, before |-> db,
                     error |-> LoadError(csv),
                     prior |-> IF last_load.called /\ last_load.error = NoError
                               THEN last_load.csv ELSE NoCsv]
    /\ IF LoadRaises(csv)
       THEN /\ loadpc' = "raised"
            /\ db' = db
       ELSE /\ loadpc' = "done"
            /\ db' = [exists |-> TRUE,
                      ai_paragraphs |-> db.ai_paragraphs \o SelectParagraphs(ReadCsv(csv)),
                      ai_counts_year_sector_ticker |->
                          CountsByYearSectorTicker(
                              db.ai_paragraphs \o SelectParagraphs(ReadCsv(csv)))]
    /\ UNCHANGED <<configVars, flowVars, callVars, parseVars, fetchVars>>

\* LoadDuckdb as it would be were the tables dropped before the columns are
\* validated
LoadDuckdbDropsFirst ==
    /\ mainpc = "done"
    /\ loadpc = "idle"
    /\ last_load' = [called |-> TRUE, csv |-> csv, before |-> db,
                     error |-> LoadError(csv),
                     prior |-> IF last_load.called /\ last_load.error = NoError
                               THEN last_load.csv ELSE NoCsv]
    /\ IF LoadRaises(csv)
       THEN /\ loadpc' = "raised"
            /\ db' = [exists |-> TRUE, ai_paragraphs |-> <<>>,
                      ai_counts_year_sector_ticker |-> {}]
       ELSE /\ loadpc' = "done"
            /\ db' = [exists |-> TRUE,
                      ai_paragraphs |-> SelectParagraphs(ReadCsv(csv)),
                      ai_counts_year_sector_ticker |->
                          CountsByYearSectorTicker(SelectParagraphs(ReadCsv(csv)))]
    /\ UNCHANGED <<configVars, flowVars, callVars, parseVars, fetchVars>>

\* load_ai_paragraphs_to_duckdb as the flow calls it after run_parse
LoadDuckdb ==
    /\ mainpc = "done"
    /\ loadpc = "idle"
    /\ last_load' = [called |-> TRUE, csv |-> csv, before |-> db,
                     error |-> LoadError(csv),
                     prior |-> IF last_load.called /\ last_load.error = NoError
                               THEN last_load.csv ELSE NoCsv]
    /\ IF LoadRaises(csv)
       THEN /\ loadpc' = "raised"
            /\ db' = db
       ELSE /\ loadpc' = "done"
            /\ db' = [exists |-> TRUE,
                      ai_paragraphs |-> SelectParagraphs(ReadCsv(csv)),
                      ai_counts_year_sector_ticker |->
                          CountsByYearSectorTicker(SelectParagraphs(ReadCsv(csv)))]
    /\ UNCHANGED <<configVars, flowVars, callVars, parseVars, fetchVars>>

(***************************************************************************)
(* run_parse: a further run on the same index                              *)
(***************************************************************************)
MaxRuns == 2

\* Rerun as it would be were all_rows kept between the calls
RerunKeepsRows ==
    /\ mainpc = "done"
    /\ run < MaxRuns
    /\ run' = run + 1
    /\ prev_csv' = csv
    /\ prev_src' = src
    /\ mainpc' = "submit"
    /\ nsub' = 0
    /\ pc' = [t \in Tasks |-> "new"]
    /\ attempt' = [t \in Tasks |-> 0]
    /\ html' = [t \in Tasks |-> NoHtml]
    /\ rows' = [t \in Tasks |-> <<>>]
    /\ src' = [t \in Tasks |-> "none"]
    /\ wrote' = [t \in Tasks |-> "no"]
    /\ slept' = [t \in Tasks |-> 0]
    /\ gets' = [u \in DOMAIN gets |-> 0]
    /\ loadpc' = "idle"
    /\ UNCHANGED <<configVars, flowVars, callVars, cacheVars, envVars, filings, all_rows, csv, db, last_load,
                   fetchVars>>

\* run_parse is called again on the same index file (a re-run of the flow)
Rerun ==
    /\ mainpc = "done"
    /\ run < MaxRuns
    /\ run' = run + 1
    /\ prev_csv' = csv
    /\ prev_src' = src
    /\ mainpc' = "submit"
    /\ nsub' = 0
    /\ all_rows' = <<>>
    /\ pc' = [t \in Tasks |-> "new"]
    /\ attempt' = [t \in Tasks |-> 0]
    /\ html' = [t \in Tasks |-> NoHtml]
    /\ rows' = [t \in Tasks |-> <<>>]
    /\ src' = [t \in Tasks |-> "none"]
    /\ wrote' = [t \in Tasks |-> "no"]
    /\ slept' = [t \in Tasks |-> 0]
    /\ gets' = [u \in DOMAIN gets |-> 0]
    /\ loadpc' = "idle"
    /\ UNCHANGED <<configVars, flowVars, callVars, cacheVars, envVars, filings, csv, db, last_load, fetchVars>>

(***************************************************************************)
(* sec_fetch.py                                                            *)
(***************************************************************************)
FORMS_TO_INCLUDE == {"10-K", "10-Q", "20-F", "40-F", "6-K", "8-K"}

\* config.COMPANIES
COMPANIES ==
    << [ticker |-> "AAPL", sector |-> "Tech",
        cik |-> <<"0", "0", "0", "0", "3", "2", "0", "1", "9", "3">>],
       [ticker |-> "MSFT", sector |-> "Tech",
        cik |-> <<"0", "0", "0", "0", "7", "8", "9", "0", "1", "9">>],
       [ticker |-> "GOOGL", sector |-> "Tech",
        cik |-> <<"0", "0", "0", "1", "6", "5", "2", "0", "4", "4">>],
       [ticker |-> "AMZN", sector |-> "Tech",
        cik |-> <<"0", "0", "0", "1", "0", "1", "8", "7", "2", "4">>],
       [ticker |-> "META", sector |-> "Tech",
        cik |-> <<"0", "0", "0", "1", "3", "2", "6", "8", "0", "1">>],
       [ticker |-> "NVDA", sector |-> "Tech",
        cik |-> <<"0", "0", "0", "1", "0", "4", "5", "8", "1", "0">>],
       [ticker |-> "AMD", sector |-> "Tech",
        cik |-> <<"0", "0", "0", "0", "0", "0", "2", "4", "8", "8">>],
       [ticker |-> "AVGO", sector |-> "Tech",
        cik |-> <<"0", "0", "0", "1", "7", "3", "0", "1", "6", "8">>],
       [ticker |-> "CRM", sector |-> "Tech",
        cik |-> <<"0", "0", "0", "1", "1", "0", "8", "5", "2", "4">>],
       [ticker |-> "ORCL", sector |-> "Tech",
        cik |-> <<"0", "0", "0", "1", "3", "4", "1", "4", "3", "9">>],
       [ticker |-> "IBM", sector |-> "Tech",
        cik |-> <<"0", "0", "0", "0", "0", "5", "1", "1", "4", "3">>],
       [ticker |-> "INTC", sector |-> "Tech",
        cik |-> <<"0", "0", "0", "0", "0", "5", "0", "8", "6", "3">>],
       [ticker |-> "ADBE", sector |-> "Tech",
        cik |-> <<"0", "0", "0", "0", "7", "9", "6", "3", "4", "3">>],
       [ticker |-> "CSCO", sector |-> "Tech",
        cik |-> <<"0", "0", "0", "0", "8", "5", "8", "8", "7", "7">>],
       [ticker |-> "SNOW", sector |-> "Tech",
        cik |-> <<"0", "0", "0", "1", "6", "4", "0", "1", "4", "7">>],
       [ticker |-> "XOM", sector |-> "Energy",
        cik |-> <<"0", "0", "0", "0", "0", "3", "4", "0", "8", "8">>],
       [ticker |-> "CVX", sector |-> "Energy",
        cik |-> <<"0", "0", "0", "0", "0", "9", "3", "4", "1", "0">>],
       [ticker |-> "SLB", sector |-> "Energy",
        cik |-> <<"0", "0", "0", "0", "0", "8", "7", "3", "4", "7">>],
       [ticker |-> "OXY", sector |-> "Energy",
        cik |-> <<"0", "0", "0", "0", "7", "9", "7", "4", "6", "8">>],
       [ticker |-> "BP", sector |-> "Energy",
        cik |-> <<"0", "0", "0", "0", "3", "1", "3", "8", "0", "7">>],
       [ticker |-> "SHEL", sector |-> "Energy",
        cik |-> <<"0", "0", "0", "1", "3", "0", "6", "9", "6", "5">>],
       [ticker |-> "COP", sector |-> "Energy",
        cik |-> <<"0", "0", "0", "1", "1", "6", "3", "1", "6", "5">>],
       [ticker |-> "EOG", sector |-> "Energy",
        cik |-> <<"0", "0", "0", "0", "8", "2", "1", "1", "8", "9">>],
       [ticker |-> "PBR", sector |-> "Energy",
        cik |-> <<"0", "0", "0", "1", "1", "6", "1", "6", "8", "3">>],
       [ticker |-> "HAL", sector |-> "Energy",
        cik |-> <<"0", "0", "0", "0", "0", "4", "5", "0", "1", "2">>],
       [ticker |-> "KMI", sector |-> "Energy",
        cik |-> <<"0", "0", "0", "1", "5", "0", "6", "3", "0", "7">>],
       [ticker |-> "ENB", sector |-> "Energy",
        cik |-> <<"0", "0", "0", "0", "3", "7", "8", "2", "4", "9">>],
       [ticker |-> "EPD", sector |-> "Energy",
        cik |-> <<"0", "0", "0", "1", "0", "6", "1", "2", "1", "9">>],
       [ticker |-> "NE", sector |-> "Energy",
        cik |-> <<"0", "0", "0", "0", "3", "1", "4", "8", "0", "8">>],
       [ticker |-> "OKLO", sector |-> "Energy",
        cik |-> <<"0", "0", "0", "1", "8", "4", "9", "0", "5", "6">>] >>

\* str.zfill(width)
RECURSIVE ZFill(_, _)
ZFill(cs, width) == IF Len(cs) >= width THEN cs ELSE ZFill(<<"0">> \o cs, width)

\* pad_cik as it would be were one zero prepended whatever the width
pad_cik_prepends(cik) == <<"0">> \o cik

pad_cik(cik) == ZFill(cik, 10)

\* accession.replace("-", "")
RECURSIVE RemoveDashes(_)
RemoveDashes(cs) ==
    IF cs = <<>> THEN <<>>
    ELSE (IF Head(cs) = "-" THEN <<>> ELSE <<Head(cs)>>) \o RemoveDashes(Tail(cs))

\* int(cik) raises ValueError
BuildRaises(cik) == IntOf(cik) = NoYear

\* build_filing_url: the parts of the path after /Archives/edgar/data/
build_filing_url(cik, accession, primary_doc) ==
    IF primary_doc = ""
    THEN <<IntOf(cik)[2], RemoveDashes(accession)>>
    ELSE <<IntOf(cik)[2], RemoveDashes(accession), primary_doc>>

\* date_str.split("-")[0]
RECURSIVE BeforeDash(_)
BeforeDash(cs) ==
    IF cs = <<>> \/ Head(cs) = "-" THEN <<>> ELSE <<Head(cs)>> \o BeforeDash(Tail(cs))

\* in_year_range as it would be were the window open at its lower end
in_year_range_open(date_str) ==
    LET year == IntOf(BeforeDash(date_str))
    IN  year # NoYear /\ START_YEAR < year[2] /\ year[2] <= END_YEAR

\* in_year_range as it would be were the last year of the window left out
in_year_range_below(date_str) ==
    LET year == IntOf(BeforeDash(date_str))
    IN  year # NoYear /\ START_YEAR <= year[2] /\ year[2] < END_YEAR

\* lines 59-63: False when int() raises
in_year_range(date_str) ==
    LET year == IntOf(BeforeDash(date_str))
    IN  year # NoYear /\ START_YEAR <= year[2] /\ year[2] <= END_YEAR

WellFormed(c) == Truthy(c.ticker) /\ c.cik # NoText /\ Truthy(c.sector)

\* get_company_universe on a company list whose tickers are distinct
get_company_universe(companies) == SelectSeq(companies, WellFormed)

\* the statuses of a registry response, and what fetch_submissions_for_company
\* does with each: it raises HTTPError or RuntimeError, or returns the JSON
FailedStatuses == {"http_error", "network_error", "bad_json"}

fetch_submissions_for_company(resp) ==
    CASE resp.status = "http_error" -> "HTTPError"
      [] resp.status \in {"network_error", "bad_json"} -> "RuntimeError"
      [] OTHER -> "return"

Min(a, b) == IF a < b THEN a ELSE b

\* lines 159-194: the loop over the first n filings from position i on
RECURSIVE ExtractFrom(_, _, _, _, _, _)
ExtractFrom(ticker, cik, sector, recent, i, n) ==
    IF i > n THEN <<>>
    ELSE (IF \/ recent.form[i] \notin FORMS_TO_INCLUDE
             \/ ~in_year_range(recent.filingDate[i])
             \/ BuildRaises(cik)
          THEN <<>>
          ELSE << [ticker |-> ticker, cik |-> pad_cik(cik), sector |-> sector,
                   form |-> recent.form[i],
                   filing_date |-> recent.filingDate[i],
                   accession |-> recent.accessionNumber[i],
                   primary_doc |-> recent.primaryDocument[i],
                   filing_url |-> build_filing_url(cik, recent.accessionNumber[i],
                                                   recent.primaryDocument[i])] >>)
         \o ExtractFrom(ticker, cik, sector, recent, i + 1, n)

\* data is a JSON object: data.get("filings", {}).get("recent", {}) works
ExtractRaises(data) == data.shape # "dict"

\* extract_filings_for_company as it would be were the entries visited from
\* the last aligned position down to the first
RECURSIVE ExtractDown(_, _, _, _, _)
ExtractDown(ticker, cik, sector, recent, i) ==
    IF i < 1 THEN <<>>
    ELSE ExtractFrom(ticker, cik, sector, recent, i, i)
         \o ExtractDown(ticker, cik, sector, recent, i - 1)

extract_filings_downwards(ticker, cik, sector, data) ==
    ExtractDown(ticker, cik, sector, data,
                Min(Min(Len(data.form), Len(data.filingDate)),
                    Min(Len(data.accessionNumber), Len(data.primaryDocument))))

\* lines 143-196
extract_filings_for_company(ticker, cik, sector, data) ==
    ExtractFrom(ticker, cik, sector, data, 1,
                Min(Min(Len(data.form), Len(data.filingDate)),
                    Min(Len(data.accessionNumber), Len(data.primaryDocument))))

(***************************************************************************)
(* The registry: the bodies it may answer a submissions call with           *)
(***************************************************************************)
Acc1 == <<"1", "-", "2", "0", "-", "7">>
Acc2 == <<"1", "-", "2", "0", "-", "8">>
Date2020 == <<"2", "0", "2", "0", "-", "0", "3", "-", "0", "1">>
Date2014 == <<"2", "0", "1", "4", "-", "0", "3", "-", "0", "1">>
DateBad == <<"n", "/", "a">>
Date2015 == <<"2", "0", "1", "5", "-", "0", "1", "-", "0", "2">>
Date2025 == <<"2", "0", "2", "5", "-", "1", "2", "-", "3", "1">>
Date2026 == <<"2", "0", "2", "6", "-", "0", "1", "-", "0", "1">>

NoData ==
    [shape |-> "none", form |-> <<>>, filingDate |-> <<>>,
     accessionNumber |-> <<>>, primaryDocument |-> <<>>]
\* a 10-K of 2020, a form 4, and a 10-Q of 2014
SubmissionsMixed ==
    [shape |-> "dict", form |-> <<"10-K", "4", "10-Q">>,
     filingDate |-> <<Date2020, Date2020, Date2014>>,
     accessionNumber |-> <<Acc1, Acc2, Acc2>>,
     primaryDocument |-> <<"a.htm", "b.htm", "c.htm">>]
\* arrays of different lengths, the 8-K without a primary document
SubmissionsShort ==
    [shape |-> "dict", form |-> <<"8-K", "10-K">>,
     filingDate |-> <<Date2020, Date2020>>,
     accessionNumber |-> <<Acc2>>,
     primaryDocument |-> <<"", "d.htm">>]
\* 10-K filings dated on and around the ends of the window, one without a date
SubmissionsEdges ==
    [shape |-> "dict", form |-> <<"10-K", "10-K", "10-K", "10-K">>,
     filingDate |-> <<Date2015, Date2025, Date2026, DateBad>>,
     accessionNumber |-> <<Acc1, Acc1, Acc2, Acc2>>,
     primaryDocument |-> <<"e.htm", "e.htm", "f.htm", "g.htm">>]
\* no recent filings
SubmissionsNone ==
    [shape |-> "dict", form |-> <<>>, filingDate |-> <<>>,
     accessionNumber |-> <<>>, primaryDocument |-> <<>>]
\* decodable JSON that is not an object
SubmissionsList ==
    [shape |-> "list", form |-> <<>>, filingDate |-> <<>>,
     accessionNumber |-> <<>>, primaryDocument |-> <<>>]

Responses ==
    {[status |-> st, data |-> NoData] : st \in FailedStatuses}
    \cup {[status |-> "ok", data |-> d] :
              d \in {SubmissionsMixed, SubmissionsShort, SubmissionsEdges,
                      SubmissionsNone, SubmissionsList}}

(***************************************************************************)
(* sec_fetch.py: run_fetch                                                 *)
(***************************************************************************)
\* CompanyFails as it would be without the try around the call: the
\* exception leaves run_fetch
CompanyFailsEndsRun(resp) ==
    /\ fetchpc = "loop"
    /\ ci <= Len(universe)
    /\ fetch_submissions_for_company(resp) # "return"
    /\ calls' = Append(calls, [ticker |-> universe[ci].ticker, status |-> resp.status,
                                data |-> resp.data])
    /\ fetchpc' = "raised"
    /\ UNCHANGED <<configVars, flowVars, callVars, ci, all_filings, index_file, pauses, universe, parseVars, dbVars>>

\* lines 219-239: the registry call for the next company raises; the company
\* is skipped
CompanyFails(resp) ==
    /\ fetchpc = "loop"
    /\ ci <= Len(universe)
    /\ fetch_submissions_for_company(resp) # "return"
    /\ calls' = Append(calls, [ticker |-> universe[ci].ticker, status |-> resp.status,
                                data |-> resp.data])
    /\ ci' = ci + 1
    /\ UNCHANGED <<configVars, flowVars, callVars, all_filings, index_file, fetchpc, pauses, universe, parseVars, dbVars>>

\* lines 219-249: the call returns a JSON object; its filings are added and
\* the loop pauses
CompanyOk(resp) ==
    /\ fetchpc = "loop"
    /\ ci <= Len(universe)
    /\ fetch_submissions_for_company(resp) = "return"
    /\ ~ExtractRaises(resp.data)
    /\ calls' = Append(calls, [ticker |-> universe[ci].ticker, status |-> resp.status,
                                data |-> resp.data])
    /\ all_filings' = all_filings \o
           extract_filings_for_company(universe[ci].ticker, universe[ci].cik,
                                       universe[ci].sector, resp.data)
    /\ pauses' = pauses + 1
    /\ ci' = ci + 1
    /\ UNCHANGED <<configVars, flowVars, callVars, index_file, fetchpc, universe, parseVars, dbVars>>

\* line 242: the call returns JSON that is not an object; the AttributeError
\* of extract_filings_for_company leaves run_fetch
CompanyMalformed(resp) ==
    /\ fetchpc = "loop"
    /\ ci <= Len(universe)
    /\ fetch_submissions_for_company(resp) = "return"
    /\ ExtractRaises(resp.data)
    /\ calls' = Append(calls, [ticker |-> universe[ci].ticker, status |-> resp.status,
                                data |-> resp.data])
    /\ fetchpc' = "raised"
    /\ UNCHANGED <<configVars, flowVars, callVars, ci, all_filings, index_file, pauses, universe, parseVars, dbVars>>

\* NoneCollected as it would be were an empty index written instead of the
\* error raised
NoneCollectedWritesEmpty ==
    /\ fetchpc = "loop"
    /\ ci > Len(universe)
    /\ all_filings = <<>>
    /\ index_file' = [exists |-> TRUE, complete |-> TRUE, filings |-> <<>>]
    /\ fetchpc' = "done"
    /\ UNCHANGED <<configVars, flowVars, callVars, ci, all_filings, calls, pauses, universe, parseVars, dbVars>>

\* lines 251-252
NoneCollected ==
    /\ fetchpc = "loop"
    /\ ci > Len(universe)
    /\ all_filings = <<>>
    /\ fetchpc' = "raised"
    /\ UNCHANGED <<configVars, flowVars, callVars, ci, all_filings, index_file, calls, pauses, universe, parseVars, dbVars>>

\* lines 255-266: the index is written
WriteIndex ==
    /\ fetchpc = "loop"
    /\ ci > Len(universe)
    /\ all_filings # <<>>
    /\ index_file' = [exists |-> TRUE, complete |-> TRUE, filings |-> all_filings]
    /\ fetchpc' = "done"
    /\ UNCHANGED <<configVars, flowVars, callVars, ci, all_filings, calls, pauses, universe, parseVars, dbVars>>

\* lines 257-261: opening or writing the index file raises
WriteIndexFail ==
    /\ fetchpc = "loop"
    /\ ci > Len(universe)
    /\ all_filings # <<>>
    /\ iofail > 0
    /\ iofail' = iofail - 1
    /\ \E opened \in BOOLEAN :
           index_file' = IF opened
                         THEN [exists |-> TRUE, complete |-> FALSE, filings |-> <<>>]
                         ELSE index_file
    /\ fetchpc' = "raised"
    /\ UNCHANGED <<configVars, flowVars, callVars, ci, all_filings, calls, pauses, universe, cacheVars, netfail,
                   taskVars, histVars, mainVars, csv, dbVars>>

(***************************************************************************)
(* Indexes, initial states and specifications                              *)
(***************************************************************************)
Rec(ticker, sector, form, filing_date, filing_url, year) ==
    [ticker |-> ticker, sector |-> sector, form |-> form, form_type |-> None,
     filing_date |-> filing_date, filed |-> NoText,
     filing_url |-> filing_url, url |-> None, year |-> year]

\* records of an index: complete ones, one that names its fields by the
\* alternative keys, and ones that are skipped or make the worker raise
RecAI == Rec("AAPL", "Tech", "10-K", Date2020, "u1", NoYear)
RecPlain == Rec("XOM", "Energy", "10-Q", Date2020, "u2", IntYear(2021))
RecAlt ==
    [ticker |-> "MSFT", sector |-> "Tech", form |-> None, form_type |-> "8-K",
     filing_date |-> NoText, filed |-> Date2020,
     filing_url |-> None, url |-> "u3", year |-> NoYear]
RecNoTicker == Rec(None, "Tech", "10-K", Date2020, "u1", NoYear)
RecOld == Rec("AAPL", "Tech", "10-K", Date2014, "u1", NoYear)
RecBadDate == Rec("AAPL", "Tech", "10-K", DateBad, "u1", NoYear)
RecStrYear == Rec("AAPL", "Tech", "10-K", Date2020, "u1", StrYear("2020"))

RecordKinds == {RecAI, RecPlain, RecAlt, RecNoTicker, RecOld, RecBadDate, RecStrYear}

\* the kinds the concurrent runs draw from: a filing with a matching
\* paragraph, one with none, and one that makes its worker raise
IndexKinds == {RecAI, RecPlain, RecStrYear}

MaxIndex == 2
MaxIoFaults == 1
MaxCompanies == 3
PoolExtra == 1

SeqsUpTo(S, n) == UNION {[1..k -> S] : k \in 0..n}

NoIndexFile == [exists |-> FALSE, complete |-> FALSE, filings |-> <<>>]

\* the index file an earlier run of run_fetch wrote
OldIndex ==
    [exists |-> TRUE, complete |-> TRUE,
     filings |-> extract_filings_for_company(COMPANIES[4].ticker, COMPANIES[4].cik,
                                             COMPANIES[4].sector, SubmissionsMixed)]

\* the state in which run_parse, at pcval, works on the index recs, with the
\* documents of the URLs in cached fetched by an earlier run
InitParse(recs, docs, cached, nf, iof, pcval) ==
    /\ server = docs
    /\ paras = [h \in TextsOf(docs) |-> Analyse(h)]
    /\ cache = [u \in DOMAIN docs |-> IF u \in cached THEN WriteText(docs[u]) ELSE NoFile]
    /\ filings = recs
    /\ nsub = 0
    /\ pc = [t \in 1..Len(recs) |-> "new"]
    /\ attempt = [t \in 1..Len(recs) |-> 0]
    /\ html = [t \in 1..Len(recs) |-> NoHtml]
    /\ rows = [t \in 1..Len(recs) |-> <<>>]
    /\ all_rows = <<>>
    /\ mainpc = pcval
    /\ csv = NoCsv
    /\ db = NoDb
    /\ loadpc = "idle"
    /\ last_load = NoLoad
    /\ run = 1
    /\ prev_csv = NoCsv
    /\ prev_src = [t \in 1..Len(recs) |-> "none"]
    /\ gets = [u \in DOMAIN docs |-> 0]
    /\ src = [t \in 1..Len(recs) |-> "none"]
    /\ wrote = [t \in 1..Len(recs) |-> "no"]
    /\ slept = [t \in 1..Len(recs) |-> 0]
    /\ netfail = nf
    /\ iofail = iof

\* the state in which run_fetch enters its loop over the companies, old_index
\* being the index file an earlier run left
InitFetch(companies, pcval, old_index) ==
    /\ universe = get_company_universe(companies)
    /\ ci = 1
    /\ all_filings = <<>>
    /\ index_file = old_index
    /\ fetchpc = pcval
    /\ calls = <<>>
    /\ pauses = 0

\* no function is called directly
NoArg == [fn |-> "none", x |-> <<>>]
Pending == [fn |-> "none", value |-> <<>>]
InitCall == arg = NoArg /\ result = Pending

\* config.py as shipped
ShippedConfig == window = [start |-> START_YEAR, end |-> END_YEAR]

\* the tasks of sec_ai_trends_flow
Stages == {"fetch", "parse", "load", "analyze"}

\* the flow is not called
NoFlow ==
    /\ task_state = [s \in Stages |-> "none"]
    /\ flowpc = "idle"
    /\ plots = FALSE

\* the URLs the records of an index name
UrlsOf(recs) == {Fields(recs[i]).url : i \in 1..Len(recs)} \cap URLs

\* run_parse and the load on an index, its workers interleaved freely
Init ==
    \E recs \in SeqsUpTo(IndexKinds, MaxIndex) :
        \E cached \in SUBSET UrlsOf(recs) :
            /\ InitParse(recs, ServerDocs, cached, MAX_RETRIES * Len(recs), MaxIoFaults, "submit")
            /\ InitFetch(<<>>, "idle", NoIndexFile)
            /\ InitCall
            /\ NoFlow
            /\ ShippedConfig

\* a step of a started task
Step(t) ==
    \/ ReadOk(t)
    \/ ReadFail(t)
    \/ GetOk(t)
    \/ GetFail(t)
    \/ WriteOpen(t)
    \/ WriteOpenFail(t)
    \/ WriteData(t)
    \/ WriteDataFail(t)

Worker(t) == Start(t) \/ Step(t)

Next ==
    \/ Submit
    \/ AllSubmitted
    \/ \E t \in Tasks : Worker(t)
    \/ \E t \in Tasks : Collect(t)
    \/ WriteCsv
    \/ LoadDuckdb

Spec == Init /\ [][Next]_vars

\* the same run with the tasks executed one after the other: a task starts
\* only when no other is running
InitSerial ==
    \E recs \in SeqsUpTo(RecordKinds, MaxIndex) :
        \E cached \in SUBSET UrlsOf(recs) :
            /\ InitParse(recs, ServerDocs, cached, MAX_RETRIES, MaxIoFaults, "submit")
            /\ InitFetch(<<>>, "idle", NoIndexFile)
            /\ InitCall
            /\ NoFlow
            /\ ShippedConfig

StartAlone(t) == Running = {} /\ Start(t)

NextSerial ==
    \/ Submit
    \/ AllSubmitted
    \/ \E t \in Tasks : StartAlone(t)
    \/ \E t \in Tasks : Step(t)
    \/ \E t \in Tasks : Collect(t)
    \/ WriteCsv
    \/ LoadDuckdb

SpecSerial == InitSerial /\ [][NextSerial]_vars

\* a run on an index of more filings than the pool has workers, the first two
\* not cached and the others cached, while the document host and the disk
\* do not fail
InitPool ==
    /\ InitParse([t \in 1..(MAX_WORKERS + PoolExtra) |->
                     IF t = 1 THEN RecAI ELSE IF t = 2 THEN RecAlt ELSE RecPlain],
                 ServerDocs, {"u2"}, 0, 0, "submit")
    /\ InitFetch(<<>>, "idle", NoIndexFile)
    /\ InitCall
    /\ NoFlow
    /\ ShippedConfig

NextPool ==
    \/ Submit
    \/ AllSubmitted
    \/ \E t \in Tasks : Start(t)
    \/ \E t \in Tasks : ReadOk(t)
    \/ \E t \in Tasks : GetOk(t)
    \/ \E t \in Tasks : WriteOpen(t)
    \/ \E t \in Tasks : WriteData(t)
    \/ \E t \in Tasks : Collect(t)
    \/ WriteCsv
    \/ LoadDuckdb

SpecPool == InitPool /\ [][NextPool]_vars

\* runs of run_parse repeated on the same index, every document cached
InitRerun ==
    \E recs \in SeqsUpTo({RecAI, RecAlt}, MaxIndex) :
        /\ InitParse(recs, ServerDocs, UrlsOf(recs), 1, MaxIoFaults, "submit")
        /\ InitFetch(<<>>, "idle", NoIndexFile)
        /\ InitCall
        /\ NoFlow
        /\ ShippedConfig

\* a cache write is reached only after a failed cache read, which spends the
\* I/O fault budget of these runs: the write steps here are the succeeding ones
NextRerun ==
    \/ Submit
    \/ AllSubmitted
    \/ \E t \in Tasks : Start(t)
    \/ \E t \in Tasks : ReadOk(t)
    \/ \E t \in Tasks : ReadFail(t)
    \/ \E t \in Tasks : GetOk(t)
    \/ \E t \in Tasks : GetFail(t)
    \/ \E t \in Tasks : WriteOpen(t)
    \/ \E t \in Tasks : WriteData(t)
    \/ \E t \in Tasks : Collect(t)
    \/ WriteCsv
    \/ Rerun

SpecRerun == InitRerun /\ [][NextRerun]_vars

\* run_fetch on the first companies of the universe
InitDiscovery ==
    \E n \in 1..MaxCompanies :
        /\ InitParse(<<>>, ServerDocs, {}, 0, MaxIoFaults, "submit")
        /\ \E old \in {NoIndexFile, OldIndex} :
               InitFetch(SubSeq(COMPANIES, 1, n), "loop", old)
        /\ InitCall
        /\ NoFlow
        /\ ShippedConfig

NextDiscovery ==
    \/ \E resp \in Responses : CompanyFails(resp)
    \/ \E resp \in Responses : CompanyOk(resp)
    \/ \E resp \in Responses : CompanyMalformed(resp)
    \/ NoneCollected
    \/ WriteIndex
    \/ WriteIndexFail

SpecDiscovery == InitDiscovery /\ [][NextDiscovery]_vars

\* records of an index supplied from elsewhere: one lacking each of the
\* required fields, and complete ones whose year is before, at the two ends
\* of, and after the window
RecNoSector == Rec("AAPL", None, "10-K", Date2020, "u1", NoYear)
RecNoForm == Rec("AAPL", "Tech", None, Date2020, "u1", NoYear)
RecNoDate == Rec("AAPL", "Tech", "10-K", NoText, "u1", IntYear(2020))
RecNoUrl == Rec("AAPL", "Tech", "10-K", Date2020, None, NoYear)
RecFirstYear == Rec("AAPL", "Tech", "10-K", Date2015, "u1", IntYear(START_YEAR))
RecLastYear == Rec("AAPL", "Tech", "10-K", Date2025, "u1", NoYear)
RecLate == Rec("AAPL", "Tech", "10-K", Date2020, "u1", IntYear(END_YEAR + 1))

SuppliedKinds ==
    {RecAI, RecNoTicker, RecNoSector, RecNoForm, RecNoDate, RecNoUrl, RecBadDate,
     RecOld, RecFirstYear, RecLastYear, RecLate}

\* the windows config.py is set to: the shipped one, and windows that start
\* a year later or end a year later
Windows ==
    {[start |-> START_YEAR, end |-> END_YEAR],
     [start |-> START_YEAR + 1, end |-> END_YEAR],
     [start |-> START_YEAR, end |-> END_YEAR + 1]}

\* run_parse on an index supplied from elsewhere, under one of these
\* configurations, its workers interleaved, the document host and the disk
\* not failing
InitSupplied ==
    \E recs \in SeqsUpTo(SuppliedKinds, MaxIndex) :
        \E cached \in SUBSET UrlsOf(recs) :
            /\ InitParse(recs, ServerDocs, cached, 0, 0, "submit")
            /\ InitFetch(<<>>, "idle", NoIndexFile)
            /\ InitCall
            /\ NoFlow
            /\ window \in Windows

NextSupplied ==
    \/ Submit
    \/ AllSubmitted
    \/ \E t \in Tasks : Start(t)
    \/ \E t \in Tasks : ReadOk(t)
    \/ \E t \in Tasks : GetOk(t)
    \/ \E t \in Tasks : WriteOpen(t)
    \/ \E t \in Tasks : WriteData(t)
    \/ \E t \in Tasks : Collect(t)
    \/ WriteCsv

SpecSupplied == InitSupplied /\ [][NextSupplied]_vars

(***************************************************************************)
(* sec_prefect_flow.py                                                     *)
(***************************************************************************)
\* lines 103-109: the task whose future a task is submitted with
Upstream(s) ==
    CASE s = "parse" -> "fetch"
      [] s = "load" -> "parse"
      [] s = "analyze" -> "load"

\* the name, among the URLs of the document host, of a filing URL of the
\* first company
UrlName(filing_url) ==
    CASE Len(filing_url) = 2 -> "u2"
      [] filing_url[3] = "a.htm" -> "u1"
      [] OTHER -> "u3"

\* a record of the index file as json.load returns it
IndexRecord(f) ==
    [ticker |-> f.ticker, sector |-> f.sector, form |-> f.form, form_type |-> None,
     filing_date |-> f.filing_date, filed |-> NoText,
     filing_url |-> UrlName(f.filing_url), url |-> None, year |-> NoYear]

\* lines 94-109: the flow submits its four tasks
FlowSubmit ==
    /\ flowpc = "idle"
    /\ flowpc' = "waiting"
    /\ task_state' = [s \in Stages |-> "pending"]
    /\ UNCHANGED <<configVars, plots, callVars, parseVars, dbVars, fetchVars>>

\* a task whose upstream task did not complete is never run
TaskNotReady(s) ==
    /\ s # "fetch"
    /\ task_state[s] = "pending"
    /\ task_state[Upstream(s)] \in {"failed", "notready"}
    /\ task_state' = [task_state EXCEPT ![s] = "notready"]
    /\ UNCHANGED <<configVars, flowpc, plots, callVars, parseVars, dbVars, fetchVars>>

\* lines 15-21 and sec_fetch.py 211-216: fetch_task runs and calls run_fetch
FetchTaskStart ==
    /\ task_state["fetch"] = "pending"
    /\ task_state' = [task_state EXCEPT !["fetch"] = "running"]
    /\ fetchpc' = "loop"
    /\ UNCHANGED <<configVars, flowpc, plots, callVars, parseVars, dbVars, universe, ci,
                   all_filings, index_file, calls, pauses>>

\* lines 22-27: run_fetch returned or raised, and so does the task
FetchTaskEnd ==
    /\ task_state["fetch"] = "running"
    /\ fetchpc \in {"done", "raised"}
    /\ task_state' = [task_state EXCEPT
                         !["fetch"] = IF fetchpc = "done" THEN "completed" ELSE "failed"]
    /\ UNCHANGED <<configVars, flowpc, plots, callVars, parseVars, dbVars, fetchVars>>

\* ParseTaskStart as it would be were parse_task submitted with the path of
\* the index instead of the future of fetch_task
ParseTaskStartAtOnce ==
    /\ task_state["parse"] = "pending"
    /\ index_file.exists /\ index_file.complete
    /\ task_state' = [task_state EXCEPT !["parse"] = "running"]
    /\ filings' = [i \in 1..Len(index_file.filings) |-> IndexRecord(index_file.filings[i])]
    /\ nsub' = 0
    /\ all_rows' = <<>>
    /\ mainpc' = "submit"
    /\ pc' = [t \in 1..Len(index_file.filings) |-> "new"]
    /\ attempt' = [t \in 1..Len(index_file.filings) |-> 0]
    /\ html' = [t \in 1..Len(index_file.filings) |-> NoHtml]
    /\ rows' = [t \in 1..Len(index_file.filings) |-> <<>>]
    /\ src' = [t \in 1..Len(index_file.filings) |-> "none"]
    /\ wrote' = [t \in 1..Len(index_file.filings) |-> "no"]
    /\ slept' = [t \in 1..Len(index_file.filings) |-> 0]
    /\ prev_src' = [t \in 1..Len(index_file.filings) |-> "none"]
    /\ UNCHANGED <<configVars, flowpc, plots, callVars, cacheVars, envVars, gets, run,
                   prev_csv, csv, dbVars, fetchVars>>

\* lines 30-37 and parse_filings.py 258-267: once fetch_task has completed,
\* parse_task runs and calls run_parse on the index fetch_task returned; the
\* index is the list run_fetch wrote
ParseTaskStart ==
    /\ task_state["parse"] = "pending"
    /\ task_state["fetch"] = "completed"
    /\ task_state' = [task_state EXCEPT !["parse"] = "running"]
    /\ filings' = [i \in 1..Len(index_file.filings) |-> IndexRecord(index_file.filings[i])]
    /\ nsub' = 0
    /\ all_rows' = <<>>
    /\ mainpc' = "submit"
    /\ pc' = [t \in 1..Len(index_file.filings) |-> "new"]
    /\ attempt' = [t \in 1..Len(index_file.filings) |-> 0]
    /\ html' = [t \in 1..Len(index_file.filings) |-> NoHtml]
    /\ rows' = [t \in 1..Len(index_file.filings) |-> <<>>]
    /\ src' = [t \in 1..Len(index_file.filings) |-> "none"]
    /\ wrote' = [t \in 1..Len(index_file.filings) |-> "no"]
    /\ slept' = [t \in 1..Len(index_file.filings) |-> 0]
    /\ prev_src' = [t \in 1..Len(index_file.filings) |-> "none"]
    /\ UNCHANGED <<configVars, flowpc, plots, callVars, cacheVars, envVars, gets, run,
                   prev_csv, csv, dbVars, fetchVars>>

\* parse_filings.py 309-312: creating the directory or writing the table
\* raises, and the error leaves run_parse
WriteCsvFail ==
    /\ mainpc = "collect"
    /\ \A t \in Tasks : pc[t] = "collected"
    /\ iofail > 0
    /\ iofail' = iofail - 1
    /\ mainpc' = "raised"
    /\ UNCHANGED <<configVars, flowVars, callVars, cacheVars, netfail, taskVars, histVars,
                   filings, nsub, all_rows, run, prev_csv, prev_src, csv, dbVars, fetchVars>>

\* lines 38-46: run_parse returned or raised, and so does the task
ParseTaskEnd ==
    /\ task_state["parse"] = "running"
    /\ mainpc \in {"done", "raised"}
    /\ task_state' = [task_state EXCEPT
                         !["parse"] = IF mainpc = "done" THEN "completed" ELSE "failed"]
    /\ UNCHANGED <<configVars, flowpc, plots, callVars, parseVars, dbVars, fetchVars>>

\* lines 50-56: once parse_task has completed, duckdb_task runs
LoadTaskStart ==
    /\ task_state["load"] = "pending"
    /\ task_state["parse"] = "completed"
    /\ task_state' = [task_state EXCEPT !["load"] = "running"]
    /\ UNCHANGED <<configVars, flowpc, plots, callVars, parseVars, dbVars, fetchVars>>

\* line 56: the task calls the load on the table parse_task returned
LoadTaskCall ==
    /\ task_state["load"] = "running"
    /\ LoadDuckdb

\* load_duckdb.py 48-58: creating the directory or opening the database raises
LoadTaskCallFail ==
    /\ task_state["load"] = "running"
    /\ loadpc = "idle"
    /\ iofail > 0
    /\ iofail' = iofail - 1
    /\ loadpc' = "raised"
    /\ UNCHANGED <<configVars, flowVars, callVars, cacheVars, netfail, taskVars, histVars,
                   mainVars, csv, db, last_load, fetchVars>>

\* lines 57-65: the load returned or raised, and so does the task
LoadTaskEnd ==
    /\ task_state["load"] = "running"
    /\ loadpc \in {"done", "raised"}
    /\ task_state' = [task_state EXCEPT
                         !["load"] = IF loadpc = "done" THEN "completed" ELSE "failed"]
    /\ UNCHANGED <<configVars, flowpc, plots, callVars, parseVars, dbVars, fetchVars>>

\* analyze_plot.py 31-35 and 52-75: run_analysis raises when the database
\* is missing or ai_paragraphs has no row of the years 2015 to 2025
AnalysisRaises(database) ==
    \/ ~database.exists
    \/ \A i \in 1..Len(database.ai_paragraphs) :
           database.ai_paragraphs[i][1] < 2015 \/ database.ai_paragraphs[i][1] > 2025

\* lines 69-75: once duckdb_task has completed, analyze_task runs
AnalyzeTaskStart ==
    /\ task_state["analyze"] = "pending"
    /\ task_state["load"] = "completed"
    /\ task_state' = [task_state EXCEPT !["analyze"] = "running"]
    /\ UNCHANGED <<configVars, flowpc, plots, callVars, parseVars, dbVars, fetchVars>>

\* lines 75-84: run_analysis writes the plots and returns, or raises, and so
\* does the task
AnalyzeTaskEnd ==
    /\ task_state["analyze"] = "running"
    /\ plots' = ~AnalysisRaises(db)
    /\ task_state' = [task_state EXCEPT
                         !["analyze"] = IF AnalysisRaises(db) THEN "failed" ELSE "completed"]
    /\ UNCHANGED <<configVars, flowpc, callVars, parseVars, dbVars, fetchVars>>

\* lines 112-113: the future of analyze_task has its result; the flow returns
FlowReturns ==
    /\ flowpc = "waiting"
    /\ task_state["analyze"] = "completed"
    /\ flowpc' = "finished"
    /\ UNCHANGED <<configVars, task_state, plots, callVars, parseVars, dbVars, fetchVars>>

\* line 112: result() raises for a task run that failed or was never run;
\* the flow run fails
FlowRaises ==
    /\ flowpc = "waiting"
    /\ task_state["analyze"] \in {"failed", "notready"}
    /\ flowpc' = "failed"
    /\ UNCHANGED <<configVars, task_state, plots, callVars, parseVars, dbVars, fetchVars>>

\* the flow on a universe of the first company, with or without the index
\* file of an earlier run, the document host answering every request
InitFlow ==
    /\ InitParse(<<>>, ServerDocs, {}, 0, MaxIoFaults, "idle")
    /\ \E old \in {NoIndexFile, OldIndex} :
           InitFetch(SubSeq(COMPANIES, 1, 1), "idle", old)
    /\ InitCall
    /\ NoFlow
    /\ ShippedConfig

NextFlow ==
    \/ FlowSubmit
    \/ \E s \in Stages : TaskNotReady(s)
    \/ FetchTaskStart
    \/ \E resp \in Responses : CompanyFails(resp)
    \/ \E resp \in Responses : CompanyOk(resp)
    \/ \E resp \in Responses : CompanyMalformed(resp)
    \/ NoneCollected
    \/ WriteIndex
    \/ WriteIndexFail
    \/ FetchTaskEnd
    \/ ParseTaskStart
    \/ Submit
    \/ AllSubmitted
    \/ \E t \in Tasks : Start(t)
    \/ \E t \in Tasks : ReadOk(t)
    \/ \E t \in Tasks : GetOk(t)
    \/ \E t \in Tasks : WriteOpen(t)
    \/ \E t \in Tasks : WriteData(t)
    \/ \E t \in Tasks : Collect(t)
    \/ WriteCsv
    \/ WriteCsvFail
    \/ ParseTaskEnd
    \/ LoadTaskStart
    \/ LoadTaskCall
    \/ LoadTaskCallFail
    \/ LoadTaskEnd
    \/ AnalyzeTaskStart
    \/ AnalyzeTaskEnd
    \/ FlowReturns
    \/ FlowRaises

SpecFlow == InitFlow /\ [][NextFlow]_vars

(***************************************************************************)
(* parse_filings.py: load_index                                            *)
(***************************************************************************)
(* A JSON document is a list (its items), an object (its entries in        *)
(* document order, each a key with a value that is a list or not), or      *)
(* something else; "invalid" is a file json.load cannot decode.  Records   *)
(* are named, their content plays no part in load_index.                   *)
JsonList(items) == [shape |-> "list", items |-> items, entries |-> <<>>]
JsonDict(entries) == [shape |-> "dict", items |-> <<>>, entries |-> entries]
JsonOther == [shape |-> "other", items |-> <<>>, entries |-> <<>>]
JsonInvalid == [shape |-> "invalid", items |-> <<>>, entries |-> <<>>]

Raised == [raised |-> TRUE, records |-> <<>>]
Returned(records) == [raised |-> FALSE, records |-> records]

\* key in data and isinstance(data[key], list)
HoldsList(data, key) ==
    \E i \in 1..Len(data.entries) : data.entries[i].key = key /\ data.entries[i].islist

ListUnder(data, key) ==
    data.entries[CHOOSE i \in 1..Len(data.entries) : data.entries[i].key = key].items

\* lines 112-115: the list values of the object, concatenated
RECURSIVE AllVals(_)
AllVals(entries) ==
    IF entries = <<>> THEN <<>>
    ELSE (IF Head(entries).islist THEN Head(entries).items ELSE <<>>)
         \o AllVals(Tail(entries))

\* load_index as it would be without the fallback of lines 111-117
load_index_strict(data) ==
    IF data.shape = "invalid" THEN Raised
    ELSE IF data.shape = "list" THEN Returned(data.items)
    ELSE IF data.shape = "dict"
         THEN IF HoldsList(data, "filings") THEN Returned(ListUnder(data, "filings"))
              ELSE IF HoldsList(data, "records") THEN Returned(ListUnder(data, "records"))
              ELSE IF HoldsList(data, "items") THEN Returned(ListUnder(data, "items"))
              ELSE Raised
    ELSE Raised

load_index(data) ==
    IF data.shape = "invalid" THEN Raised
    ELSE IF data.shape = "list" THEN Returned(data.items)
    ELSE IF data.shape = "dict"
         THEN IF HoldsList(data, "filings") THEN Returned(ListUnder(data, "filings"))
              ELSE IF HoldsList(data, "records") THEN Returned(ListUnder(data, "records"))
              ELSE IF HoldsList(data, "items") THEN Returned(ListUnder(data, "items"))
              ELSE IF AllVals(data.entries) # <<>> THEN Returned(AllVals(data.entries))
              ELSE Raised
    ELSE Raised

MaxKeys == 2

\* index documents: lists, objects of up to MaxKeys entries with distinct
\* keys, recognized or not, holding lists or not, and other values
JsonKeys == {"filings", "records", "items", "data"}
JsonEntries ==
    {[key |-> k, islist |-> TRUE, items |-> its] :
         k \in JsonKeys, its \in {<<>>, <<"r1">>, <<"r2", "r3">>}}
    \cup {[key |-> k, islist |-> FALSE, items |-> <<>>] : k \in JsonKeys}
IndexDocuments ==
    {JsonList(its) : its \in {<<>>, <<"r1">>, <<"r1", "r2">>}}
    \cup {JsonDict(es) : es \in {s \in SeqsUpTo(JsonEntries, MaxKeys) :
                                   \A i, j \in 1..Len(s) : i # j => s[i].key # s[j].key}}
    \cup {JsonOther, JsonInvalid}

\* line 262
CallLoadIndex ==
    /\ arg.fn = "load_index"
    /\ result.fn = "none"
    /\ result' = [fn |-> arg.fn, value |-> load_index(arg.x)]
    /\ UNCHANGED <<configVars, flowVars, arg, parseVars, dbVars, fetchVars>>

(***************************************************************************)
(* Direct calls of the text functions                                      *)
(***************************************************************************)
MaxTokens == 2
MaxTextLen == 5
MaxMarkupLen == 4
MaxUnits == 2

\* phrases a paragraph is put together from: keywords in lower and upper
\* case, a keyword that contains an earlier one, and a word that is none
MachineLearning == AI_KEYWORDS[2]
Phrases ==
    {MachineLearning, <<"L", "L", "M", "s">>, AI_KEYWORDS[5],
     <<"A", "I", "-", "d", "r", "i", "v", "e", "n">>, <<"a">>}

\* the phrases of ps separated by single spaces
RECURSIVE JoinSP(_)
JoinSP(ps) ==
    IF ps = <<>> THEN <<>>
    ELSE IF Len(ps) = 1 THEN ps[1]
    ELSE ps[1] \o <<SP>> \o JoinSP(Tail(ps))

Paragraphs == {JoinSP(ps) : ps \in SeqsUpTo(Phrases, MaxTokens)}

\* plain texts: words, sentence ends, spaces and line ends in every order
Texts == SeqsUpTo({"a", ".", SP, LF}, MaxTextLen)

\* raw markup: words, spaces, line ends and paragraph tags in every order
Markups == SeqsUpTo({"a", SP, LF, "<p>", "</p>"}, MaxMarkupLen)

\* a paragraph unit of n words that starts with the phrase first
Unit(first, n) == first \o Rep(<<SP, "a">>, n - WordCount(first))

\* units of one word less than, exactly and one word more than the minimum,
\* without a keyword, with a one-word and with a two-word keyword
UnitKinds ==
    {Unit(first, n) : first \in {<<"a">>, AI_KEYWORDS[8], MachineLearning},
                      n \in (PARAGRAPH_MIN_WORDS - 1)..(PARAGRAPH_MIN_WORDS + 1)}

UnitLists == SeqsUpTo(UnitKinds, MaxUnits)

\* line 227
CallParagraphContainsAi ==
    /\ arg.fn = "paragraph_contains_ai"
    /\ result.fn = "none"
    /\ result' = [fn |-> arg.fn, value |-> paragraph_contains_ai(arg.x)]
    /\ UNCHANGED <<configVars, flowVars, arg, parseVars, dbVars, fetchVars>>

\* split_into_paragraphs called on a text
CallSplitIntoParagraphs ==
    /\ arg.fn = "split_into_paragraphs"
    /\ result.fn = "none"
    /\ result' = [fn |-> arg.fn, value |-> split_into_paragraphs(arg.x)]
    /\ UNCHANGED <<configVars, flowVars, arg, parseVars, dbVars, fetchVars>>

\* lines 217-218: the extraction of the worker on a fetched document
CallExtract ==
    /\ arg.fn = "extract"
    /\ result.fn = "none"
    /\ result' = [fn |-> arg.fn, value |-> split_into_paragraphs(clean_html(arg.x))]
    /\ UNCHANGED <<configVars, flowVars, arg, parseVars, dbVars, fetchVars>>

\* lines 221-230: the filter loop of the worker on a list of units
CallFilter ==
    /\ arg.fn = "filter"
    /\ result.fn = "none"
    /\ result' = [fn |-> arg.fn, value |-> KeptParagraphs(arg.x)]
    /\ UNCHANGED <<configVars, flowVars, arg, parseVars, dbVars, fetchVars>>

\* int(cik) written back as a string: the identifier without leading zeros
RECURSIVE StripZeros(_)
StripZeros(cs) ==
    IF Len(cs) > 1 /\ Head(cs) = "0" THEN StripZeros(Tail(cs)) ELSE cs

\* the identifiers of the configured companies, as configured and as
\* written without their leading zeros
Identifiers ==
    {COMPANIES[i].cik : i \in 1..Len(COMPANIES)}
    \cup {StripZeros(COMPANIES[i].cik) : i \in 1..Len(COMPANIES)}

\* pad_cik called on an identifier
CallPadCik ==
    /\ arg.fn = "pad_cik"
    /\ result.fn = "none"
    /\ result' = [fn |-> arg.fn, value |-> pad_cik(arg.x)]
    /\ UNCHANGED <<configVars, flowVars, arg, parseVars, dbVars, fetchVars>>

YearMargin == 1

\* the years of the window and YearMargin years on either side of it
Years == (START_YEAR - YearMargin)..(END_YEAR + YearMargin)

\* a year of four digits as text
YearText(y) ==
    <<Digits[(y \div 1000) + 1], Digits[((y \div 100) % 10) + 1],
      Digits[((y \div 10) % 10) + 1], Digits[(y % 10) + 1]>>

\* filing dates 'YYYY-MM-DD' of these years, and strings whose year part is
\* not an integer: no year, letters, a letter among the digits, nothing at all
FilingDates ==
    {YearText(y) \o <<"-", "0", "3", "-", "0", "1">> : y \in Years}
    \cup {DateBad, <<>>, <<"-", "0", "3", "-", "0", "1">>,
          <<"Y", "Y", "Y", "Y", "-", "M", "M", "-", "D", "D">>,
          <<"2", "0", "a", "0", "-", "0", "3", "-", "0", "1">>}

\* in_year_range called on a filing date
CallInYearRange ==
    /\ arg.fn = "in_year_range"
    /\ result.fn = "none"
    /\ result' = [fn |-> arg.fn, value |-> in_year_range(arg.x)]
    /\ UNCHANGED <<configVars, flowVars, arg, parseVars, dbVars, fetchVars>>

MaxArrayLen == 2

\* answers of the registry whose four arrays have up to MaxArrayLen entries
\* each, of equal or different lengths
RecentBlocks ==
    {[shape |-> "dict", form |-> fs, filingDate |-> ds,
      accessionNumber |-> as, primaryDocument |-> ps] :
         fs \in SeqsUpTo({"10-K", "4"}, MaxArrayLen),
         ds \in SeqsUpTo({Date2020, Date2014}, MaxArrayLen),
         as \in SeqsUpTo({Acc1, Acc2}, MaxArrayLen),
         ps \in SeqsUpTo({"a.htm", "b.htm"}, MaxArrayLen)}

\* extract_filings_for_company called for the first company on an answer
CallExtractFilings ==
    /\ arg.fn = "extract_filings_for_company"
    /\ result.fn = "none"
    /\ result' = [fn |-> arg.fn,
                  value |-> extract_filings_for_company(
                                COMPANIES[1].ticker, COMPANIES[1].cik,
                                COMPANIES[1].sector, arg.x)]
    /\ UNCHANGED <<configVars, flowVars, arg, parseVars, dbVars, fetchVars>>

InitCalls ==
    /\ InitParse(<<>>, ServerDocs, {}, 0, 0, "submit")
    /\ InitFetch(<<>>, "idle", NoIndexFile)
    /\ NoFlow
    /\ ShippedConfig
    /\ result = Pending
    /\ \/ \E p \in Paragraphs : arg = [fn |-> "paragraph_contains_ai", x |-> p]
       \/ \E t \in Texts : arg = [fn |-> "split_into_paragraphs", x |-> t]
       \/ \E h \in Markups : arg = [fn |-> "extract", x |-> h]
       \/ \E ps \in UnitLists : arg = [fn |-> "filter", x |-> ps]
       \/ \E d \in IndexDocuments : arg = [fn |-> "load_index", x |-> d]
       \/ \E c \in Identifiers : arg = [fn |-> "pad_cik", x |-> c]
       \/ \E d \in FilingDates : arg = [fn |-> "in_year_range", x |-> d]
       \/ \E b \in RecentBlocks : arg = [fn |-> "extract_filings_for_company", x |-> b]

NextCalls ==
    \/ CallParagraphContainsAi
    \/ CallSplitIntoParagraphs
    \/ CallExtract
    \/ CallFilter
    \/ CallLoadIndex
    \/ CallPadCik
    \/ CallInYearRange
    \/ CallExtractFilings

SpecCalls == InitCalls /\ [][NextCalls]_vars

(***************************************************************************)
(* Repeated loads of CSV files                                             *)
(***************************************************************************)
MaxMissing == 1

\* the sequence s without the members of S
RECURSIVE Without(_, _)
Without(s, S) ==
    IF s = <<>> THEN <<>>
    ELSE (IF Head(s) \in S THEN <<>> ELSE <<Head(s)>>) \o Without(Tail(s), S)

\* the items of a row without those of the columns in S
RECURSIVE WithoutItems(_, _)
WithoutItems(row, S) ==
    IF row = <<>> THEN <<>>
    ELSE (IF Head(row)[1] \in S THEN <<>> ELSE <<Head(row)>>) \o WithoutItems(Tail(row), S)

\* rows as run_parse writes them
RowAI == RowDict(Fields(RecAI), DocAI, AI_KEYWORDS[8])
RowML == RowDict(Fields(RecPlain), Unit(MachineLearning, PARAGRAPH_MIN_WORDS), MachineLearning)

\* a CSV file with the rows rs, written without the columns in missing and,
\* if extra, with a further column
CsvFile(rs, missing, extra) ==
    [exists |-> TRUE,
     columns |-> Without(Columns, missing) \o (IF extra THEN <<"note">> ELSE <<>>),
     rows |-> [i \in 1..Len(rs) |->
                  WithoutItems(rs[i], missing)
                  \o (IF extra THEN << <<"note", <<"x">>>> >> ELSE <<>>)]]

\* the files the load is called on: files of no, one and two rows, complete,
\* with up to MaxMissing columns missing, with a column more; no file at
\* all; an empty file
CsvFiles ==
    {CsvFile(rs, missing, extra) :
         rs \in {<<>>, <<RowAI>>, <<RowML>>, <<RowAI, RowML>>},
         missing \in {S \in SUBSET {Columns[i] : i \in 1..Len(Columns)} :
                         Cardinality(S) <= MaxMissing},
         extra \in BOOLEAN}
    \cup {NoCsv, [exists |-> TRUE, columns |-> <<>>, rows |-> <<>>]}

\* lines 10-18: the load is called again, on the file source_csv
CallLoadAgain(source_csv) ==
    /\ mainpc = "done"
    /\ loadpc # "idle"
    /\ csv' = source_csv
    /\ loadpc' = "idle"
    /\ UNCHANGED <<configVars, flowVars, callVars, cacheVars, envVars, taskVars, histVars, mainVars, db,
                   last_load, fetchVars>>

\* run_parse on an empty index, then loads of one file after the other
InitLoad ==
    /\ InitParse(<<>>, ServerDocs, {}, 0, 0, "submit")
    /\ InitFetch(<<>>, "idle", NoIndexFile)
    /\ InitCall
    /\ NoFlow
    /\ ShippedConfig

NextLoad ==
    \/ AllSubmitted
    \/ WriteCsv
    \/ LoadDuckdb
    \/ \E f \in CsvFiles : CallLoadAgain(f)

SpecLoad == InitLoad /\ [][NextLoad]_vars

(***************************************************************************)
(* Properties                                                              *)
(***************************************************************************)
Count(x, s) == Cardinality({i \in 1..Len(s) : s[i] = x})

\* the same rows, up to their order
SameRows(a, b) ==
    /\ Len(a) = Len(b)
    /\ \A i \in 1..Len(a) : Count(a[i], a) = Count(a[i], b)

\* the task's fetch failed on every attempt, or the worker raised
Failing(t) == src[t] \in {"failed", "raised"}

\* the task obtained a text
Fetched(t) == src[t] \in {"net", "cache"}

\* the rows of the filings 1..n that obtained a text, in index order
RECURSIVE RowsOfFetched(_)
RowsOfFetched(n) ==
    IF n = 0 THEN <<>>
    ELSE RowsOfFetched(n - 1)
         \o (IF Fetched(n) THEN ExtractRows(F(n), html[n]) ELSE <<>>)

\* C1: whichever filings fail (every fetch attempt fails, or the worker
\* raises), run_parse does not raise; when it ends the table is written,
\* every task was collected, every filing that neither failed nor was skipped
\* obtained its text, a failing filing has no rows, and the table holds, up
\* to order, exactly the rows of the filings that obtained a text.
C1_FailuresIsolated ==
    /\ mainpc \in {"submit", "collect", "done"}
    /\ mainpc = "done" =>
           /\ csv.exists
           /\ \A t \in Tasks : pc[t] = "collected"
           /\ \A t \in Tasks : Failing(t) => rows[t] = <<>>
           /\ \A t \in Tasks : ~Failing(t) /\ src[t] # "skipped" => Fetched(t)
           /\ SameRows(csv.rows, RowsOfFetched(Len(filings)))

\* a finished run in which one filing's fetch failed on every attempt and
\* another filing put rows in the table
C1_Witness ==
    /\ mainpc = "done"
    /\ \E t \in Tasks : src[t] = "failed"
    /\ \E t \in Tasks : Fetched(t) /\ rows[t] # <<>>
    /\ csv.rows # <<>>

\* no request failed and no file operation failed so far
NoFaultYet == iofail = MaxIoFaults /\ \A t \in Tasks : slept[t] = 0

\* C2: in a run without faults whose tasks execute one after the other, when
\* two filings name the same URL and the first call fetched it from the
\* network and wrote the cache entry, the second call is served from the
\* entry, the URL was requested once, and the second call returns the text
\* the first call returned.
C2_SecondCallSameContent ==
    \A t1 \in Tasks : \A t2 \in Tasks :
        (/\ NoFaultYet
         /\ t1 < t2
         /\ F(t1).url = F(t2).url
         /\ src[t1] = "net" /\ wrote[t1] = "ok"
         /\ Fetched(t2))
        => /\ src[t2] = "cache"
           /\ gets[F(t1).url] = 1
           /\ html[t2] = html[t1]

\* the number of steps a started task can still take
Remaining(t) ==
    CASE pc[t] = "read" -> MAX_RETRIES + 3
      [] pc[t] = "get" -> MAX_RETRIES + 3 - attempt[t]
      [] pc[t] = "wopen" -> 2
      [] pc[t] = "wdata" -> 1
      [] OTHER -> 0

\* C3: a call makes at most MAX_RETRIES attempts, each failed attempt is
\* followed by one pause, the call stops at the first attempt that succeeds
\* and returns the body served, after MAX_RETRIES failures it returns None,
\* the fetch never makes the worker raise, and every step of a call in
\* progress brings it nearer to its return.
C3_BoundedRetries ==
    /\ [](\A t \in Tasks :
            /\ attempt[t] <= MAX_RETRIES
            /\ pc[t] = "get" => slept[t] = attempt[t] - 1
            /\ src[t] = "net" =>
                   /\ html[t] = server[F(t).url]
                   /\ slept[t] = attempt[t] - 1
            /\ src[t] = "failed" =>
                   /\ html[t] = NoHtml
                   /\ attempt[t] = MAX_RETRIES
                   /\ slept[t] = MAX_RETRIES
                   /\ pc[t] \in {"done", "collected"}
            /\ pc[t] = "raised" => attempt[t] = 0)
    /\ [][\A t \in Tasks :
            pc[t] \in RunningPcs /\ <<pc'[t], attempt'[t]>> # <<pc[t], attempt[t]>>
            => Remaining(t)' < Remaining(t)]_vars

\* one call gave up after MAX_RETRIES failed attempts while another
\* succeeded at its last attempt
C3_Witness ==
    /\ \E t \in Tasks : src[t] = "failed" /\ html[t] = NoHtml
    /\ \E t \in Tasks : src[t] = "net" /\ attempt[t] = MAX_RETRIES /\ slept[t] = 1

\* the cache file a completed write of the body of u leaves
Complete(u) == WriteText(server[u])

\* a worker has the cache file of u open for writing
Writing(u) == \E t \in Tasks : pc[t] = "wdata" /\ F(t).url = u

\* C4: in a run without faults, a worker that was served from the cache
\* obtained the complete body of its URL as a completed write leaves it, and
\* a cache entry that no worker is writing holds a complete body.
C4_EntryNeverTorn ==
    NoFaultYet =>
        /\ \A t \in Tasks : src[t] = "cache" => html[t] = ReadText(Complete(F(t).url))
        /\ \A u \in URLs : cache[u] # NoFile /\ ~Writing(u) => cache[u] = Complete(u)

\* C5: at most MAX_WORKERS tasks are executing, so at most MAX_WORKERS
\* requests to the document host are in flight.
C5_AtMostMaxWorkers ==
    /\ Cardinality(Running) <= MAX_WORKERS
    /\ Cardinality({t \in Tasks : pc[t] = "get"}) <= MAX_WORKERS

\* the pool is full, a request is in flight and a submitted task waits
C5_Witness ==
    /\ Cardinality(Running) = MAX_WORKERS
    /\ \E t \in Tasks : pc[t] = "get"
    /\ \E t \in Tasks : pc[t] = "pending"

\* C6: in a run without faults, once a cache entry exists and no worker is
\* in the middle of writing it, no step of the pipeline deletes it or changes
\* its content.
C6_CacheAppendOnly ==
    [][\A u \in URLs :
          NoFaultYet /\ cache[u] # NoFile /\ ~Writing(u) => cache'[u] = cache[u]]_vars

\* C7: a call whose request succeeded goes on to the cache write with the
\* body served; it returns only from the write, with that body, without a
\* further request, and either the entry then holds that body or the write
\* failed.
C7_WriteThenReturn ==
    [][\A t \in Tasks :
          /\ pc[t] = "get" /\ pc'[t] # "get" =>
                 \/ pc'[t] = "wopen" /\ html'[t] = server[F(t).url]
                 \/ pc'[t] = "done" /\ src'[t] = "failed" /\ html'[t] = NoHtml
          /\ pc[t] \in {"wopen", "wdata"} /\ pc'[t] \notin {"wopen", "wdata"} =>
                 /\ pc'[t] = "done"
                 /\ src'[t] = "net"
                 /\ html[t] = server[F(t).url]
                 /\ html'[t] = html[t]
                 /\ gets' = gets
                 /\ \/ wrote'[t] = "ok" /\ cache'[F(t).url] = WriteText(html[t])
                    \/ wrote'[t] = "failed"]_vars

\* a call whose cache write failed returned the body served, and its filing
\* has rows
C7_Witness ==
    \E t \in Tasks :
        /\ src[t] = "net"
        /\ wrote[t] = "failed"
        /\ html[t] = server[F(t).url]
        /\ rows[t] # <<>>

\* every filing of the run whose sources are s was served from the cache
FromCache(s) == \A t \in Tasks : s[t] \in {"cache", "skipped", "raised"}

\* C8: when a run and the run before it on the same index served every
\* document from the cache, the two tables have the same columns and the same
\* rows up to their order.
C8_RerunSameRows ==
    (run > 1 /\ mainpc = "done" /\ FromCache(prev_src) /\ FromCache(src))
    => /\ prev_csv.columns = csv.columns
       /\ SameRows(prev_csv.rows, csv.rows)

\* two such runs whose tables hold the same rows in different orders
C8_Witness ==
    /\ run > 1 /\ mainpc = "done" /\ FromCache(prev_src) /\ FromCache(src)
    /\ Len(csv.rows) > 1
    /\ prev_csv.rows # csv.rows

\* C9: the table is always written with the seven columns in order; the load
\* never raises on it, and when the table has no rows the load ends with an
\* ai_paragraphs table without rows.
C9_ColumnsAlways ==
    /\ csv.exists => csv.columns = Columns
    /\ loadpc # "raised"
    /\ loadpc = "done" =>
           /\ db.exists
           /\ Len(db.ai_paragraphs) = Len(csv.rows)
           /\ csv.rows = <<>> => db.ai_paragraphs = <<>>

\* filings were fetched, none matched, the table was written and loaded
C9_Witness ==
    /\ \E t \in Tasks : Fetched(t)
    /\ csv.exists /\ csv.rows = <<>>
    /\ loadpc = "done" /\ db.ai_paragraphs = <<>>

\* the filings of the first k registry calls, a failed call giving none
RECURSIVE FilingsOfCalls(_)
FilingsOfCalls(k) ==
    IF k = 0 THEN <<>>
    ELSE FilingsOfCalls(k - 1)
         \o (IF calls[k].status = "ok"
             THEN extract_filings_for_company(universe[k].ticker, universe[k].cik,
                                              universe[k].sector, calls[k].data)
             ELSE <<>>)

\* C10: the registry is called for the companies in order, once each; a
\* failed call never ends run_fetch; the filings collected are those of the
\* calls that succeeded, and the index written holds exactly them after a
\* call for every company.
C10_FailedCompaniesSkipped ==
    /\ Len(calls) <= Len(universe)
    /\ \A k \in 1..Len(calls) : calls[k].ticker = universe[k].ticker
    /\ fetchpc = "loop" => Len(calls) = ci - 1
    /\ fetchpc = "raised" =>
           \/ ci > Len(universe)
           \/ /\ calls # <<>>
              /\ calls[Len(calls)].status = "ok"
              /\ ExtractRaises(calls[Len(calls)].data)
    /\ all_filings = FilingsOfCalls(Len(calls))
    /\ fetchpc = "done" =>
           /\ Len(calls) = Len(universe)
           /\ index_file = [exists |-> TRUE, complete |-> TRUE,
                            filings |-> FilingsOfCalls(Len(universe))]

\* the index was written after the first call failed and a later one
\* succeeded with filings
C10_Witness ==
    /\ fetchpc = "done"
    /\ Len(calls) > 1
    /\ calls[1].status \in FailedStatuses
    /\ \E k \in 2..Len(calls) : calls[k].status = "ok"
    /\ index_file.filings # <<>>

C12_DelayBetweenCalls ==
    (fetchpc = "loop" /\ ci <= Len(universe)) => pauses = Len(calls)

\* the entries of a registry answer that are aligned over its four arrays
Aligned(data) ==
    1..Min(Min(Len(data.form), Len(data.filingDate)),
           Min(Len(data.accessionNumber), Len(data.primaryDocument)))

\* the year a filing date starts with, 0 when it starts with no year
YearOfDate(d) ==
    IF Len(d) >= 4 /\ \A i \in 1..4 : IsDigit(d[i])
    THEN DecimalValue(SubSeq(d, 1, 4)) ELSE 0

\* entry i of a registry answer has an allowed form and a year in the window
Qualifies(data, i) ==
    /\ data.form[i] \in FORMS_TO_INCLUDE
    /\ YearOfDate(data.filingDate[i]) \in START_YEAR..END_YEAR

\* record r was made from entry i of the answer to call k
MadeFrom(r, k, i) ==
    /\ r.ticker = calls[k].ticker
    /\ r.form = calls[k].data.form[i]
    /\ r.filing_date = calls[k].data.filingDate[i]
    /\ r.accession = calls[k].data.accessionNumber[i]
    /\ r.primary_doc = calls[k].data.primaryDocument[i]

\* the calls that returned a JSON object
Extracted == {k \in 1..Len(calls) : calls[k].status = "ok" /\ ~ExtractRaises(calls[k].data)}

\* C13: every filing collected, and every record of the index file, has a
\* form of FORMS_TO_INCLUDE and a filing date whose year is in
\* START_YEAR..END_YEAR; every aligned entry of a registry answer with such a
\* form and date is among the collected filings as often as it is among the
\* entries, and nothing else is collected.
C13_OnlyAllowedFormsAndYears ==
    /\ \A i \in 1..Len(all_filings) :
           /\ all_filings[i].form \in FORMS_TO_INCLUDE
           /\ YearOfDate(all_filings[i].filing_date) \in START_YEAR..END_YEAR
           /\ \E k \in Extracted : \E j \in Aligned(calls[k].data) :
                  Qualifies(calls[k].data, j) /\ MadeFrom(all_filings[i], k, j)
    /\ \A i \in 1..Len(index_file.filings) :
           /\ index_file.filings[i].form \in FORMS_TO_INCLUDE
           /\ YearOfDate(index_file.filings[i].filing_date) \in START_YEAR..END_YEAR
    /\ \A k \in Extracted : \A j \in Aligned(calls[k].data) :
           Qualifies(calls[k].data, j) =>
               Cardinality({i \in 1..Len(all_filings) : MadeFrom(all_filings[i], k, j)})
               = Cardinality({m \in Aligned(calls[k].data) :
                                 /\ Qualifies(calls[k].data, m)
                                 /\ calls[k].data.form[m] = calls[k].data.form[j]
                                 /\ calls[k].data.filingDate[m] = calls[k].data.filingDate[j]
                                 /\ calls[k].data.accessionNumber[m]
                                        = calls[k].data.accessionNumber[j]
                                 /\ calls[k].data.primaryDocument[m]
                                        = calls[k].data.primaryDocument[j]})

\* an index was written from answers holding filings dated in the first and
\* the last year of the window, a later year, a disallowed form and a filing
\* before the window
C13_Witness ==
    /\ fetchpc = "done"
    /\ \E k \in 1..Len(calls) : calls[k].data = SubmissionsEdges
    /\ \E k \in 1..Len(calls) : calls[k].data = SubmissionsMixed
    /\ \E i, j \in 1..Len(index_file.filings) :
           /\ index_file.filings[i].filing_date = Date2015
           /\ index_file.filings[j].filing_date = Date2025

\* keyword kw occurs in p, the case of the letters of p ignored
OccursIn(kw, p) ==
    \E i \in 0..(Len(p) - Len(kw)) : \A j \in 1..Len(kw) : Lower(p[i + j]) = kw[j]

\* the positions in AI_KEYWORDS of the keywords that occur in p
Hits(p) == {k \in 1..Len(AI_KEYWORDS) : OccursIn(AI_KEYWORDS[k], p)}

\* C14: paragraph_contains_ai(p) is (True, k) for the keyword k that comes
\* first in AI_KEYWORDS among those occurring in p, letter case ignored and
\* wherever they occur in p; it is (False, None) exactly when none occurs.
C14_FirstKeywordOfList ==
    result.fn = "paragraph_contains_ai" =>
        IF Hits(arg.x) = {}
        THEN result.value = <<FALSE, NoKeyword>>
        ELSE result.value =
                 <<TRUE, AI_KEYWORDS[CHOOSE k \in Hits(arg.x) : \A m \in Hits(arg.x) : k <= m]>>

\* the call on a paragraph naming a later keyword of the list before an
\* earlier one, in upper case, has returned
C14_Witness ==
    /\ result.fn = "paragraph_contains_ai"
    /\ arg.x = <<"L", "L", "M", "s", SP>> \o MachineLearning
    /\ result.value = <<TRUE, MachineLearning>>

\* the number of words of a unit whose words are separated by single spaces
Words(p) == Cardinality({i \in 1..Len(p) : p[i] = SP}) + 1

\* a unit of at least the minimum of words in which a keyword occurs
Passes(p) == Words(p) >= PARAGRAPH_MIN_WORDS /\ Hits(p) # {}

\* C15: the filter loop of _process_single_filing keeps, in order and once
\* each, exactly the units that have at least PARAGRAPH_MIN_WORDS words and
\* contain a keyword: a unit of one word less is dropped even with a
\* keyword, a unit of exactly that many words with a keyword is kept.
C15_MinWordsAndKeyword ==
    result.fn = "filter" =>
        [i \in 1..Len(result.value) |-> result.value[i][1]] = SelectSeq(arg.x, Passes)

\* the loop has run on a unit of one word less than the minimum and a unit
\* of exactly the minimum, both with a keyword, and kept only the second
C15_Witness ==
    /\ result.fn = "filter"
    /\ arg.x = <<Unit(AI_KEYWORDS[8], PARAGRAPH_MIN_WORDS - 1),
                 Unit(MachineLearning, PARAGRAPH_MIN_WORDS)>>
    /\ result.value = << <<Unit(MachineLearning, PARAGRAPH_MIN_WORDS), MachineLearning>> >>

\* the whitespace runs of t that lie between two words, by their first index
InnerRuns(t) ==
    {i \in 2..Len(t) : /\ IsSpace(t[i]) /\ ~IsSpace(t[i - 1])
                       /\ RunEnd(t, i, SpaceChars) < Len(t)}

\* the run that starts at i holds a blank line: two line ends
HoldsBlankLine(t, i) ==
    Cardinality({j \in i..RunEnd(t, i, SpaceChars) : t[j] = LF}) >= 2

\* the number of non-empty blocks of t that blank lines separate
BlankLineBlocks(t) ==
    IF \A i \in 1..Len(t) : IsSpace(t[i]) THEN 0
    ELSE 1 + Cardinality({i \in InnerRuns(t) : HoldsBlankLine(t, i)})

\* C16: clean_html followed by split_into_paragraphs returns one unit for each
\* of the non-empty blocks that blank lines separate in the visible text of
\* the markup (the markup here holds no sentence end).
C16_BlankLineBlocksAreUnits ==
    result.fn = "extract" => Len(result.value) = BlankLineBlocks(get_text(arg.x))

NotSpace(c) == ~IsSpace(c)

\* the run that starts at i follows a sentence end and has two characters or more
FollowsSentenceEnd(t, i) ==
    IsSentenceEnd(t[i - 1]) /\ RunEnd(t, i, SpaceChars) >= i + 1

\* the number of units of t: one more than its whitespace runs between words
\* that hold a blank line or follow a sentence end with two characters or more
UnitsOf(t) ==
    IF \A i \in 1..Len(t) : IsSpace(t[i]) THEN 0
    ELSE 1 + Cardinality({i \in InnerRuns(t) :
                             HoldsBlankLine(t, i) \/ FollowsSentenceEnd(t, i)})

\* C17: the units split_into_paragraphs returns are non-empty and trimmed,
\* hold the words of the text in their order, and are cut exactly at the
\* blank lines and at the sentence ends followed by two or more whitespace
\* characters: two blocks around a blank line give two units, two sentences
\* with two spaces between them give two units, with one space one unit.
C17_UnitsTrimmedAndSplit ==
    result.fn = "split_into_paragraphs" =>
        /\ \A i \in 1..Len(result.value) :
               /\ result.value[i] # <<>>
               /\ ~IsSpace(Head(result.value[i]))
               /\ ~IsSpace(result.value[i][Len(result.value[i])])
        /\ SelectSeq(Flatten(result.value), NotSpace) = SelectSeq(arg.x, NotSpace)
        /\ Len(result.value) = UnitsOf(arg.x)
        /\ arg.x = <<"a", LF, LF, "a">> => result.value = << <<"a">>, <<"a">> >>
        /\ arg.x = <<"a", ".", SP, SP, "a">> => result.value = << <<"a", ".">>, <<"a">> >>
        /\ arg.x = <<"a", ".", SP, "a">> => result.value = << <<"a", ".", SP, "a">> >>

\* the call on two sentences with two spaces between them has returned them
\* as two units
C17_Witness ==
    /\ result.fn = "split_into_paragraphs"
    /\ arg.x = <<"a", ".", SP, SP, "a">>
    /\ Len(result.value) = 2

RecognizedKeys == <<"filings", "records", "items">>

\* the positions in RecognizedKeys of the keys under which d holds a list
Recognized(d) ==
    {k \in 1..Len(RecognizedKeys) :
        \E i \in 1..Len(d.entries) :
            d.entries[i].key = RecognizedKeys[k] /\ d.entries[i].islist}

\* the list d holds under the recognized key that comes first in RecognizedKeys
FirstRecognizedList(d) ==
    LET k == CHOOSE k \in Recognized(d) : \A m \in Recognized(d) : k <= m
    IN  d.entries[CHOOSE i \in 1..Len(d.entries) : d.entries[i].key = RecognizedKeys[k]].items

\* the list values of d one after the other, in document order
ListValues(d) ==
    Flatten([i \in 1..Len(d.entries) |->
                IF d.entries[i].islist THEN d.entries[i].items ELSE <<>>])

\* C18 as claimed: load_index returns a flat list as it is, returns the list
\* an object holds under the first of the keys filings, records, items, and
\* fails for every other document.
C18_OnlyTwoShapes ==
    result.fn = "load_index" =>
        IF arg.x.shape = "list" THEN result.value = Returned(arg.x.items)
        ELSE IF arg.x.shape = "dict" /\ Recognized(arg.x) # {}
             THEN result.value = Returned(FirstRecognizedList(arg.x))
        ELSE result.value = Raised

\* C18 amended: load_index returns a flat list as it is, returns the list an
\* object holds under the first of the keys filings, records, items, and for
\* an object with no list under these keys but some non-empty list among its
\* values returns all its list values concatenated; it fails for every other
\* document.
C18_ThreeShapes ==
    result.fn = "load_index" =>
        IF arg.x.shape = "list" THEN result.value = Returned(arg.x.items)
        ELSE IF arg.x.shape = "dict" /\ Recognized(arg.x) # {}
             THEN result.value = Returned(FirstRecognizedList(arg.x))
        ELSE IF arg.x.shape = "dict" /\ ListValues(arg.x) # <<>>
             THEN result.value = Returned(ListValues(arg.x))
        ELSE result.value = Raised

\* load_index has returned the records of an object that holds them under a
\* key that is not recognized, next to an empty list under another
C18_Witness ==
    /\ result.fn = "load_index"
    /\ arg.x = JsonDict(<< [key |-> "data", islist |-> TRUE, items |-> <<"r2", "r3">>],
                           [key |-> "items", islist |-> FALSE, items |-> <<>>] >>)
    /\ result.value = Returned(<<"r2", "r3">>)

\* the value a row of a CSV file has in column col
ValueIn(row, col) == row[CHOOSE j \in 1..Len(row) : row[j][1] = col][2]

\* the rows of a CSV file as rows of the table ai_paragraphs
TableOf(file) ==
    [i \in 1..Len(file.rows) |->
        <<ValueIn(file.rows[i], "year"), ValueIn(file.rows[i], "ticker"),
          ValueIn(file.rows[i], "sector"), ValueIn(file.rows[i], "filing_date"),
          ValueIn(file.rows[i], "form"), ValueIn(file.rows[i], "paragraph"),
          ValueIn(file.rows[i], "keyword")>>]

\* C19: after a load that succeeded the table ai_paragraphs holds the rows
\* of the file loaded, one for one, whatever it held before; after a load of
\* the file that the load before it loaded, the database is as it was.
C19_FullReplace ==
    loadpc = "done" =>
        /\ db.exists
        /\ db.ai_paragraphs = TableOf(csv)
        /\ last_load.prior = csv => db = last_load.before

\* a load has succeeded on a database whose table held a row that is not in
\* the file loaded, and the file has a row
C19_Witness ==
    /\ loadpc = "done"
    /\ db.ai_paragraphs # <<>>
    /\ last_load.before.ai_paragraphs # <<>>
    /\ \A i \in 1..Len(last_load.before.ai_paragraphs) :
           \A j \in 1..Len(db.ai_paragraphs) :
               last_load.before.ai_paragraphs[i] # db.ai_paragraphs[j]

Required == {"ticker", "sector", "year", "filing_date", "form", "paragraph", "keyword"}

\* the columns of a CSV file
ColumnsOf(file) == {file.columns[i] : i \in 1..Len(file.columns)}

\* C20: a load of a CSV file that lacks required columns raises an error
\* naming exactly the columns that are missing and leaves the database as it
\* was before the call; a load of a file that has all the required columns
\* succeeds, with or without further columns.
C20_MissingColumnsFailEarly ==
    (loadpc # "idle" /\ csv.exists /\ csv.columns # <<>>) =>
        IF Required \ ColumnsOf(csv) # {}
        THEN /\ loadpc = "raised"
             /\ last_load.error = [type |-> "ValueError",
                                   missing |-> Required \ ColumnsOf(csv)]
             /\ db = last_load.before
        ELSE loadpc = "done" /\ last_load.error = NoError

\* a load of a file without the keyword column, and with a column more, has
\* raised on a database whose table held rows, and the table still holds them
C20_Witness ==
    /\ loadpc = "raised"
    /\ ColumnsOf(csv) = (Required \ {"keyword"}) \cup {"note"}
    /\ csv.rows # <<>>
    /\ db.ai_paragraphs # <<>>
    /\ db = last_load.before

\* C22: pad_cik of the identifier of a configured company, written with or
\* without its leading zeros, is a string of exactly ten decimal digits: the
\* identifier preceded by zeros only.  Padding the result again leaves it
\* as it is.
C22_PadFixedWidthIdempotent ==
    result.fn = "pad_cik" =>
        LET x == arg.x
            v == result.value
        IN  /\ Len(v) = 10
            /\ \A i \in 1..Len(v) : IsDigit(v[i])
            /\ SubSeq(v, 10 - Len(x) + 1, 10) = x
            /\ \A i \in 1..(10 - Len(x)) : v[i] = "0"
            /\ pad_cik(v) = v

\* an identifier shorter than ten digits was padded
C22_Witness ==
    /\ result.fn = "pad_cik"
    /\ Len(arg.x) < 10
    /\ Len(result.value) = 10
    /\ result.value # arg.x

\* C23: in_year_range of a filing date is true exactly when the date starts
\* with a year of four digits that is at least START_YEAR and at most
\* END_YEAR, the two boundary years included; for a string whose year part
\* is not an integer it returns false.
C23_InWindowIffYearInside ==
    result.fn = "in_year_range" =>
        /\ result.value \in BOOLEAN
        /\ result.value <=> (/\ START_YEAR <= YearOfDate(arg.x)
                             /\ YearOfDate(arg.x) <= END_YEAR)
        /\ YearOfDate(arg.x) \in {START_YEAR, END_YEAR} => result.value
        /\ YearOfDate(arg.x) = 0 => ~result.value

\* a date of the last year of the window was accepted
C23_Witness ==
    /\ result.fn = "in_year_range"
    /\ YearOfDate(arg.x) = END_YEAR
    /\ result.value = TRUE

\* the lengths of the four arrays of a registry answer
ArrayLengths(data) ==
    {Len(data.form), Len(data.filingDate), Len(data.accessionNumber),
     Len(data.primaryDocument)}

\* the least of the lengths of the four arrays
Shortest(data) == CHOOSE n \in ArrayLengths(data) : \A m \in ArrayLengths(data) : n <= m

\* record r holds the form, date, accession number and document of position i
TakenAt(r, data, i) ==
    /\ r.form = data.form[i]
    /\ r.filing_date = data.filingDate[i]
    /\ r.accession = data.accessionNumber[i]
    /\ r.primary_doc = data.primaryDocument[i]

\* C26: with n the least of the lengths of the four arrays,
\* extract_filings_for_company emits at most n references, and there are
\* positions within 1..n, strictly increasing along the references emitted,
\* such that every reference has its form, date, accession number and
\* document from its one position; a position that qualifies is not left
\* out, and nothing beyond position n is emitted.
C26_AlignedAndTruncated ==
    result.fn = "extract_filings_for_company" =>
        LET data == arg.x
            v == result.value
            n == Shortest(data)
        IN  /\ Len(v) <= n
            /\ Len(v) = Cardinality({i \in 1..n : Qualifies(data, i)})
            /\ \E pos \in [1..Len(v) -> 1..n] :
                   /\ \A j \in 1..Len(v) : TakenAt(v[j], data, pos[j])
                   /\ \A j \in 1..Len(v) : Qualifies(data, pos[j])
                   /\ \A j \in 1..Len(v) : \A k \in 1..Len(v) : j < k => pos[j] < pos[k]

\* the arrays differ in length, an allowed form of a year in the window
\* stands beyond the shortest of them, and the one reference emitted is
\* that of the first position
C26_Witness ==
    /\ result.fn = "extract_filings_for_company"
    /\ Cardinality(ArrayLengths(arg.x)) > 1
    /\ Shortest(arg.x) = 1
    /\ Len(arg.x.form) > 1 /\ Len(arg.x.filingDate) > 1
    /\ arg.x.form[2] \in FORMS_TO_INCLUDE
    /\ YearOfDate(arg.x.filingDate[2]) \in START_YEAR..END_YEAR
    /\ Len(result.value) = 1
    /\ TakenAt(result.value[1], arg.x, 1)

\* the year a record states, or else the year its date starts with; 0 when
\* it has neither
YearOfRecord(rec) ==
    IF rec.year # NoYear THEN (IF rec.year[1] = "int" THEN rec.year[2] ELSE 0)
    ELSE YearOfDate(IF rec.filing_date # NoText THEN rec.filing_date ELSE rec.filed)

\* the record lacks one of ticker, sector, form, filing date, URL and year
Lacks(rec) ==
    \/ rec.ticker = None
    \/ rec.sector = None
    \/ rec.form = None /\ rec.form_type = None
    \/ rec.filing_date = NoText /\ rec.filed = NoText
    \/ rec.filing_url = None /\ rec.url = None
    \/ YearOfRecord(rec) = 0

\* the task never looked at the cache or the network and has no rows
Untouched(t) ==
    /\ pc[t] \in {"new", "pending", "done", "collected"}
    /\ pc[t] \in {"done", "collected"} => src[t] = "skipped"
    /\ attempt[t] = 0
    /\ html[t] = NoHtml
    /\ rows[t] = <<>>

\* the requests made so far
Requests == {t \in Tasks : pc[t] \in {"wopen", "wdata"} \/ src[t] = "net"}

Sum(f, S) ==
    LET RECURSIVE Add(_)
        Add(T) == IF T = {} THEN 0
                  ELSE LET x == CHOOSE x \in T : TRUE IN f[x] + Add(T \ {x})
    IN  Add(S)

\* C24: a record lacking one of ticker, sector, form, filing date, URL and
\* year is skipped: its task neither reads the cache nor requests the
\* document, does not raise, and returns no rows; every request made is
\* that of a task whose record is complete; and when the run ends every
\* complete record of a year in the window has obtained a text and
\* returned the rows of it, and the table holds the rows of these records.
C24_IncompleteRecordsSkipped ==
    /\ \A t \in Tasks : Lacks(filings[t]) => Untouched(t)
    /\ \A t \in Requests : ~Lacks(filings[t])
    /\ Sum(gets, DOMAIN gets) = Cardinality(Requests)
    /\ mainpc = "done" =>
           /\ \A t \in Tasks :
                  ~Lacks(filings[t]) /\ YearOfRecord(filings[t]) \in START_YEAR..END_YEAR
                  => Fetched(t) /\ rows[t] = ExtractRows(F(t), html[t])
           /\ SameRows(csv.rows, RowsOfFetched(Len(filings)))

\* a run ended in which a record without a URL was skipped and a complete
\* record after it put its rows in the table
C24_Witness ==
    /\ mainpc = "done"
    /\ \E t \in Tasks : \E u \in Tasks :
           /\ t < u
           /\ filings[t] = RecNoUrl /\ src[t] = "skipped" /\ rows[t] = <<>>
           /\ ~Lacks(filings[u]) /\ src[u] = "net" /\ rows[u] # <<>>
    /\ Len(csv.rows) = 1

\* year y is inside the window of the configuration
Configured(y) == window.start <= y /\ y <= window.end

\* the years of the rows of a table
RowYears(rs) == {ValueIn(rs[i], "year") : i \in 1..Len(rs)}

RECURSIVE RowsOfCollected(_)
RowsOfCollected(n) ==
    IF n = 0 THEN <<>>
    ELSE RowsOfCollected(n - 1) \o (IF pc[n] = "collected" THEN rows[n] ELSE <<>>)

\* C27: the row list of a task is changed only by that task, once, when it
\* returns; the master list is changed only by the orchestrator, which adds
\* to its end the row list of the one future it collects; so at every moment
\* of every interleaving the master list holds, as a multiset, exactly the
\* rows of the row lists of the tasks collected so far, and the table written
\* holds the rows of all the tasks, none lost and none twice.
C27_MasterListIsUnionOfTaskLists ==
    /\ [](/\ SameRows(all_rows, RowsOfCollected(Len(filings)))
          /\ mainpc = "done" =>
                 /\ \A t \in Tasks : pc[t] = "collected"
                 /\ csv.rows = all_rows)
    /\ [][/\ \A t \in Tasks :
                rows'[t] # rows[t] =>
                    /\ pc[t] \in RunningPcs /\ pc'[t] = "done"
                    /\ rows[t] = <<>>
                    /\ \A u \in Tasks \ {t} : rows'[u] = rows[u]
                    /\ all_rows' = all_rows
          /\ all_rows' # all_rows =>
                 /\ mainpc = "collect"
                 /\ rows' = rows
                 /\ \E t \in Tasks :
                        /\ pc[t] = "done" /\ pc'[t] = "collected"
                        /\ all_rows' = all_rows \o rows[t]]_vars

\* the orchestrator has added the rows of one filing to the master list
\* while a worker is still writing the cache entry of another filing, whose
\* rows will be the same
C27_Witness ==
    /\ mainpc = "collect"
    /\ \E t \in Tasks : \E u \in Tasks :
           /\ pc[t] = "collected" /\ rows[t] # <<>> /\ all_rows = rows[t]
           /\ pc[u] = "wdata" /\ filings[u] = filings[t]

\* the tasks submitted to the executor
Submitted == {t \in Tasks : pc[t] # "new"}

\* C28: the records are submitted one task each, in index order, a repeated
\* record once per occurrence; the collecting starts when all are
\* submitted; the table is written, and run_parse returns, only when every
\* task has finished and been collected, so that no task is pending or
\* running then, and every record has been processed by its own task.
C28_OneTaskEachAllFinishedBeforeWrite ==
    /\ [](/\ Submitted = 1..nsub
          /\ nsub <= Len(filings)
          /\ mainpc \in {"collect", "done"} => nsub = Len(filings)
          /\ csv.exists \/ mainpc = "done" =>
                 /\ csv.exists /\ mainpc = "done"
                 /\ \A t \in Tasks : pc[t] = "collected" /\ src[t] # "none"
                 /\ Running = {}
                 /\ Cardinality(Submitted) = Len(filings))
    /\ [][csv' # csv => \A t \in Tasks : pc[t] = "collected" /\ pc'[t] = "collected"]_vars

\* run_parse returned on an index of more records than workers in which a
\* record stands twice: each occurrence was served from the cache by its
\* own task
C28_Witness ==
    /\ mainpc = "done" /\ csv.exists
    /\ Len(filings) > MAX_WORKERS
    /\ \E t \in Tasks : \E u \in Tasks :
           /\ t < u
           /\ filings[t] = filings[u]
           /\ src[t] = "cache" /\ src[u] = "cache"
           /\ pc[t] = "collected" /\ pc[u] = "collected"

\* task t makes a request that fails in this step
FailedAttempt(t) ==
    /\ pc[t] = "get"
    /\ gets'[F(t).url] = gets[F(t).url] + 1
    /\ pc'[t] # "wopen"

\* C29: a cache entry that no worker is in the middle of writing holds the
\* body the document host serves for its URL, as a completed write leaves
\* it; a request that fails changes no cache entry, and neither does the
\* step in which a call gives up and returns None.
C29_EntriesHoldServedBodies ==
    /\ [](\A u \in URLs : cache[u] # NoFile /\ ~Writing(u) => cache[u] = Complete(u))
    /\ [][\A t \in Tasks :
            /\ FailedAttempt(t) => cache' = cache
            /\ src[t] # "failed" /\ src'[t] = "failed" => cache' = cache]_vars

\* the task was run: its function was entered
Ran(s) == task_state[s] \in {"running", "completed", "failed"}

\* the tasks submitted after s
Later(s) ==
    CASE s = "fetch" -> {"parse", "load", "analyze"}
      [] s = "parse" -> {"load", "analyze"}
      [] s = "load" -> {"analyze"}
      [] OTHER -> {}

\* C21: in every run of the flow a task is run only when the task before it
\* has completed; until a task is run its stage has done nothing (no
\* registry call, no record submitted and no table, no load and no
\* database, no plot); a task completes only if its stage returned; once a
\* task has failed no later task is ever run and the flow does not finish;
\* the flow finishes only with all four tasks completed, and it fails only
\* after a task failed.
C21_StagesInOrderFailureStopsFlow ==
    /\ \A s \in Later("fetch") : Ran(s) => task_state[Upstream(s)] = "completed"
    /\ ~Ran("fetch") => fetchpc = "idle" /\ calls = <<>>
    /\ ~Ran("parse") => mainpc = "idle" /\ nsub = 0 /\ ~csv.exists
    /\ ~Ran("load") => loadpc = "idle" /\ ~db.exists /\ ~last_load.called
    /\ ~Ran("analyze") => ~plots
    /\ task_state["fetch"] = "completed" =>
           fetchpc = "done" /\ index_file.complete /\ index_file.filings # <<>>
    /\ task_state["parse"] = "completed" => mainpc = "done" /\ csv.exists
    /\ task_state["load"] = "completed" => loadpc = "done" /\ db.exists
    /\ task_state["analyze"] = "completed" => plots
    /\ fetchpc = "raised" => task_state["fetch"] \in {"running", "failed"}
    /\ mainpc = "raised" => task_state["parse"] \in {"running", "failed"}
    /\ loadpc = "raised" => task_state["load"] \in {"running", "failed"}
    /\ \A s \in Stages :
           task_state[s] = "failed" =>
               /\ \A r \in Later(s) : task_state[r] \in {"pending", "notready"}
               /\ flowpc # "finished"
    /\ flowpc = "finished" => \A s \in Stages : task_state[s] = "completed"
    /\ flowpc = "failed" => \E s \in Stages : task_state[s] = "failed"

\* no filing was discovered although the registry was called: run_fetch
\* raised, the index of an earlier run is still there, no later task was
\* run and the flow failed
C21_Witness ==
    /\ flowpc = "failed"
    /\ task_state["fetch"] = "failed"
    /\ calls # <<>> /\ all_filings = <<>>
    /\ index_file = OldIndex
    /\ \A s \in Later("fetch") : task_state[s] = "notready"
    /\ mainpc = "idle" /\ loadpc = "idle" /\ ~plots

====
